---- MODULE Spec2Model ----
(***************************************************************************)
(* A model of the socket package of ctfjx: the Conn state machine of       *)
(* internal/socket/socket.go (Write, Read, Register, Listen, Connect,      *)
(* Close, reconnect, Reconnect, ReconnectOrClose, readLoop, heartbeatLoop),*)
(* the header codec and the default Ping/Pong handlers.                    *)
(*                                                                         *)
(* Every goroutine is a task with a stack of labels (stk); the head of the *)
(* stack is the statement the task executes next.  A step of a task is one *)
(* action of the model.  Goroutines have no identity, so the tasks are a   *)
(* bag of task records.  A step that needs a mutex is enabled only while   *)
(* the mutex is free.  Go mutexes have no owner, so a mutex is a boolean.  *)
(* A step that takes muConn and then muSend is enabled when both are free: *)
(* no code path waits for muConn while it holds muSend, so holding muConn  *)
(* while waiting for muSend only delays the other tasks.  Statements that  *)
(* touch only the task's own locals run in the step that leads to them.    *)
(* Logging changes no field of the Conn and is left out of the steps       *)
(* (GenLogMsg holds the read side of muConn for the time of the call).     *)
(***************************************************************************)
EXTENDS Integers, Sequences, FiniteSets, TLC

VARIABLES
    cleanup,    \* package cleanup: cleanupIdGen, cleanupFns (the map, as
                \* its set of entries), and the history of what Register
                \* has returned and of what was unregistered and run
    logger,     \* package log: mu (its write side and the number of holders
                \* of its read side), logLevel, logFileDir, logFilename,
                \* closeCh ("nil", "open" or "closed")
    c,          \* the Conn: raw, state, lastPing, muConn, muSend, ReadDone, pongCh
    cfg,        \* c.Config: the ConnConfig, with its Handlers map
    streams,    \* every byte stream dialed or handed to the Conn
    pong,       \* the buffer of every pong channel ever made (capacity 1)
    rdone,      \* for every read-done channel ever made: the number of
                \* times close() was executed on it
    tasks,      \* the goroutines, callers and spawned tasks: a bag of records
    calls,      \* number of operations the callers have started
    ticks,      \* number of heartbeat ticks consumed
    sent,       \* history: the frames the peer has sent, in order, each with
                \* the actions that had a handler when it was sent
    invoked,    \* history: the handler invocations the reader has dispatched
    heard,      \* history: the headers the readers have decoded, in order
    nwrite,     \* number of Conn.Write calls that reached the stream
    nclose,     \* number of Conn.Close calls that have returned nil
    panicked    \* "" or the reason the process died of an unrecovered panic

pkgs == <<cleanup, logger>>

vars == <<pkgs, c, cfg, streams, pong, rdone, tasks, calls, ticks, sent,
          invoked, heard, nwrite, nclose, panicked>>

----------------------------------------------------------------------------
\* Bounds of the model.

\* operations the callers may start in one run
MaxCalls == 3
\* byte streams in one run: the peer accepts no connection beyond them
MaxStreams == 2
\* ticks of the heartbeat tickers in one run
MaxTicks == 1
\* frames the peer sends in one run
MaxFrames == 2
\* Config.MaxReconnectionAttempts
MaxReconnectionAttempts == 2
\* Config.MaxMessageSize
MaxMessageSize == 2

\* The number of caller goroutines.
NumCallers == 2

----------------------------------------------------------------------------
\* ConnState (socket.go 16-24)
ConnStateIdle == "idle"
ConnStateUnknown == "unknown"
ConnStateOpen == "open"
ConnStateClosed == "closed"
ConnStateReconnecting == "reconnecting"

ConnStates == {ConnStateIdle, ConnStateUnknown, ConnStateOpen, ConnStateClosed,
               ConnStateReconnecting}

\* Action (action.go 6-29)
ActionInvalid == 0
ActionAck == 1
ActionError == 2
ActionPing == 3
ActionPong == 4
ActionHello == 5

\* Errors: an error is the sequence of the sentinels joined in it; nil is <<>>.
Nil == <<>>
ErrInvalidHeader == <<"invalid packet header">>
ErrPayloadTooLarge == <<"payload too large">>
ErrConnectionClosed == <<"connection closed">>
ErrConnectionNotEstablished == <<"connection not established">>
ErrConnectionAlreadyReconnecting == <<"connection already reconnecting">>
ErrConnectionTLSUpgradeFailed == <<"tls upgrade failed">>
ErrExhaustedReconnectAttempts == <<"exhausted reconnect attempts">>
ErrTLSMissingConfig == <<"tls config is required">>
\* errors of the net package
ErrDial == <<"dial failed">>
ErrTLSHandshake == <<"tls handshake failed">>
ErrNetClosed == <<"use of closed network connection">>
ErrNetWrite == <<"write failed">>
\* the text that fmt.Errorf of DailWithRetry wraps its last error in
ErrFailedToDial == <<"failed to dial after attempts">>

\* errors.Join
Join(e1, e2) == e1 \o e2
\* errors.Is
Is(e, sentinel) == \E i \in 1..Len(e) : e[i] = sentinel[1]

----------------------------------------------------------------------------
\* The header codec.  A uint64 is kept as its four 16-bit limbs, most
\* significant first, because the checker's integers are 32 bits wide.

Limb == 65536

U64(n) == <<0, 0, n \div Limb, n % Limb>>

\* v > n for a uint64 v and a number n below 2^31
U64Gt(v, n) == v[1] > 0 \/ v[2] > 0 \/ v[3] > n \div Limb
               \/ (v[3] = n \div Limb /\ v[4] > n % Limb)

\* the value of a uint64 that is not above a number below 2^31
U64Int(v) == v[3] * Limb + v[4]

\* a PutUint64 that writes the least significant byte first
PutUint64LittleEndian(v) ==
    <<v[4] % 256, v[4] \div 256, v[3] % 256, v[3] \div 256,
      v[2] % 256, v[2] \div 256, v[1] % 256, v[1] \div 256>>

\* binary.BigEndian.PutUint64
PutUint64(v) ==
    <<v[1] \div 256, v[1] % 256, v[2] \div 256, v[2] % 256,
      v[3] \div 256, v[3] % 256, v[4] \div 256, v[4] % 256>>

\* binary.BigEndian.Uint64 of the first eight bytes of b
Uint64(b) ==
    <<b[1] * 256 + b[2], b[3] * 256 + b[4], b[5] * 256 + b[6], b[7] * 256 + b[8]>>

Header(a, len) == [Action |-> a, Len |-> len]

HeaderSize == 9

\* Header.MarshalBytes
MarshalBytes(h) == <<h.Action>> \o PutUint64(h.Len)

\* UnmarshalHeader / Header.UnmarshalBytes: [h, err]
UnmarshalHeader(buf) ==
    IF Len(buf) < HeaderSize
    THEN [h |-> Header(ActionInvalid, U64(0)), err |-> ErrInvalidHeader]
    ELSE [h |-> Header(buf[1], Uint64(SubSeq(buf, 2, 9))), err |-> Nil]


----------------------------------------------------------------------------
\* Byte streams (net.Conn).  closed: Close was called on it; eof: the peer
\* closed its side; inb: bytes received and not yet read; wire: the chunks
\* written, each tagged with the Write call that emitted it; wdl: a write
\* deadline is set; tls: "none" for a plain stream, "failed" after a TLS
\* handshake on it that failed, "ok" when it is wrapped in a TLS stream.

NewStream == [closed |-> FALSE, eof |-> FALSE, inb |-> <<>>, wire |-> <<>>,
              wdl |-> FALSE, tls |-> "none"]

\* The frames the peer sends: the header and the payload, as bytes.
Frame(a, len, payload) == MarshalBytes(Header(a, U64(len))) \o payload

\* the header of a Ping, sent as the payload of another frame
PingHeaderBytes == MarshalBytes(Header(ActionPing, U64(0)))

PeerFrames ==
    { [Action |-> ActionPing, Len |-> 0, payload |-> <<>>],
      [Action |-> ActionPong, Len |-> 0, payload |-> <<>>],
      [Action |-> ActionAck, Len |-> 1, payload |-> <<7>>],
      [Action |-> ActionHello, Len |-> 0, payload |-> <<>>],
      [Action |-> ActionHello, Len |-> HeaderSize, payload |-> PingHeaderBytes],
      [Action |-> ActionPing, Len |-> MaxMessageSize + 1, payload |-> <<>>],
      [Action |-> ActionHello, Len |-> MaxMessageSize + 1, payload |-> <<>>] }

\* the buffers a caller hands to Write, and the action a caller registers
WriteBufs == { <<170, 187>> }
RegisterActions == { ActionAck }

\* DefaultConnHandlers (part_002 43-55); a handler given to Register is "user"
DefaultConnHandlers == (ActionPing :> "ping") @@ (ActionPong :> "pong")

----------------------------------------------------------------------------
\* Tasks.

NoHeader == Header(ActionInvalid, U64(0))

NewTask(kind, stk) ==
    [kind |-> kind, stk |-> stk, op |-> "", err |-> Nil, n |-> 0, s |-> 0,
     ch |-> 0, hdr |-> NoHeader, buf |-> <<>>, wid |-> 0, i |-> 0, att |-> 0,
     errs |-> Nil, saved |-> Nil, lastErr |-> Nil, dialed |-> <<>>]

Live == DOMAIN tasks

At(t, label) == t.stk # <<>> /\ Head(t.stk) = label

Running == panicked = ""

\* the bag ts without one copy of t, and with one more copy of t
Del(ts, t) == IF ts[t] = 1 THEN [u \in DOMAIN ts \ {t} |-> ts[u]]
              ELSE [ts EXCEPT ![t] = @ - 1]
Put(ts, t) == IF t \in DOMAIN ts THEN [ts EXCEPT ![t] = @ + 1]
              ELSE (t :> 1) @@ ts

RECURSIVE PutAll(_, _)
PutAll(ts, new) == IF new = <<>> THEN ts ELSE PutAll(Put(ts, Head(new)), Tail(new))

\* task t becomes the tasks of the sequence new: itself after its step (none
\* when it has ended) and the tasks it has spawned
Become(t, new) == tasks' = PutAll(Del(tasks, t), new)

\* the task moves to another statement of the function it is in
Goto(t, label) == [t EXCEPT !.stk = <<label>> \o Tail(@)]

\* the task calls a function and comes back at label cont
CallFn(t, entry, cont) == [t EXCEPT !.stk = <<entry, cont>> \o Tail(@)]

\* make(chan struct{}, 1) and make(chan struct{})
NewPong == Len(pong) + 1
NewReadDone == Len(rdone) + 1

\* The configurations: DefaultConnConfig (part_002 57-84) with the knobs a
\* caller may set.  HeartbeatInterval 0 disables the heartbeat; TLSConfig is
\* TRUE for a TLS configuration and FALSE for nil.
ConnConfigs == [UseTLS : BOOLEAN, TLSConfig : BOOLEAN, AutoReconnect : BOOLEAN,
                HeartbeatInterval : {0, 1}, Handlers : {DefaultConnHandlers}]

\* the log levels (logger.go 84-91)
TRACE == 0
DEBUG == 1
INFO == 2
WARN == 3
ERROR == 4
QUIET == 5

ErrAlreadyInitialized == <<"already initialized">>
ErrInvalidLogLevel == <<"invalid log level">>
ErrMissingLogFilename == <<"missing log filename">>

\* the package-level variables of cleanup (part_010 17-27) and of log
\* (logger.go 93-112) when the program starts
NewPackages ==
    /\ cleanup = [cleanupIdGen |-> 0, cleanupFns |-> {},
                  returned |-> {}, unregistered |-> {}, ran |-> <<>>]
    /\ logger = [mu |-> FALSE, readers |-> 0, logLevel |-> WARN,
                 logFileDir |-> "", logFilename |-> "", closeCh |-> "nil"]

\* NewConn (raw = nil, written 0) or NewConnWithRaw (an established stream),
\* socket.go 99-111, for the configurations cfgs and the raws given
NewConnWithRaw(cfgs, raws) ==
    /\ NewPackages
    /\ cfg \in cfgs
    /\ \E raw \in raws :
        /\ c = [raw |-> raw, state |-> ConnStateIdle, lastPing |-> "new",
                muConn |-> FALSE, muSend |-> FALSE, ReadDone |-> 0, pongCh |-> 0]
        /\ streams = IF raw = 0 THEN <<>> ELSE <<NewStream>>
    /\ pong = <<>>
    /\ rdone = <<>>
    /\ calls = 0
    /\ ticks = 0
    /\ sent = <<>>
    /\ invoked = <<>>
    /\ heard = <<>>
    /\ nwrite = 0
    /\ nclose = 0
    /\ panicked = ""

\* the Conn just constructed, and the callers that have called nothing yet
InitWith(cfgs, raws) ==
    /\ NewConnWithRaw(cfgs, raws)
    /\ tasks = (NewTask("caller", <<"idle">>) :> NumCallers)

Init == InitWith(ConnConfigs, {0, 1})

----------------------------------------------------------------------------
\* Conn.Reconnect and Conn.ReconnectOrClose after the calls they make.

\* a loop that makes one attempt too many
AttemptsLeftInclusive(i) == i <= MaxReconnectionAttempts

\* Conn.Reconnect (socket.go 327): the loop condition
AttemptsLeft(i) == i < MaxReconnectionAttempts

\* ReconnectOrClose (socket.go 353-361) up to its first call: the stack of a
\* task that enters it
ReconnectOrCloseEntry ==
    IF cfg.AutoReconnect THEN <<"Reconnect", "ReconnectOrClose_after">>
    ELSE <<"Close", "ReconnectOrClose_join">>

RECURSIVE Return(_, _, _)
\* The task returns (n, e) from the function it is in: the sequence of the
\* task after the return, empty when a spawned task has ended.  The caller of
\* the function goes on to its next call or to its own return:
\*  - a caller goroutine is back at idle; its locals are dead, and what stays
\*    of its call is the operation, the result, the attempts made and the
\*    streams dialed;
\*  - Reconnect (socket.go 328-343) returns nil after an attempt that
\*    succeeded, calls reconnect again while attempts are left, and returns
\*    all the errors joined otherwise;
\*  - ReconnectOrClose (socket.go 355-361) returns nil when Reconnect did,
\*    calls Close otherwise, and joins the error of Close with Reconnect's;
\*  - readLoop (socket.go 381-384, 410-415) logs the error of Close and
\*    returns.
Return(t, e, n) ==
    IF Len(t.stk) = 1 THEN <<>>
    ELSE
    LET cont == t.stk[2]
        back == [t EXCEPT !.stk = Tail(@)]
    IN
    IF cont = "idle"
    THEN << [NewTask("caller", <<"idle">>) EXCEPT
                !.op = t.op, !.err = e, !.n = n, !.att = t.att,
                !.dialed = t.dialed] >>
    ELSE IF cont = "Reconnect_after"
    THEN IF e = Nil THEN Return(back, Nil, 0)
         ELSE IF AttemptsLeft(t.i + 1)
         THEN << [CallFn(back, "reconnect", "Reconnect_after") EXCEPT
                    !.errs = Join(t.errs, e), !.i = t.i + 1, !.att = t.att + 1] >>
         ELSE Return([back EXCEPT !.errs = Join(t.errs, e), !.i = t.i + 1],
                     Join(t.errs, e), 0)
    ELSE IF cont = "ReconnectOrClose_after"
    THEN IF e = Nil THEN Return(back, Nil, 0)
         ELSE << [CallFn(back, "Close", "ReconnectOrClose_join") EXCEPT
                    !.saved = e] >>
    ELSE IF cont = "ReconnectOrClose_join"
    THEN Return(back, Join(e, t.saved), 0)
    ELSE IF cont = "readLoop_closed"
    THEN Return(back, Nil, 0)
    ELSE << [back EXCEPT !.err = e, !.n = n] >>

----------------------------------------------------------------------------
\* The callers.  A caller that is idle starts any operation of the menu.

Ops == {"Write", "Read", "Register", "IsOpen", "Listen", "Connect", "Close",
        "Reconnect", "ReconnectOrClose", "DailWithRetry"}

\* sendPing (socket.go 480-490) is a Write of the header of a Ping
Entry(op) == IF op = "ReconnectOrClose" THEN ReconnectOrCloseEntry
             ELSE IF op = "sendPing" THEN <<"Write">>
             ELSE <<op>>

Args(op) == IF op = "Write" THEN WriteBufs
            ELSE IF op = "sendPing" THEN {PingHeaderBytes}
            ELSE IF op = "Register" THEN {<<a>> : a \in RegisterActions}
            ELSE {<<>>}

Invoke(t, menu) ==
    /\ Running /\ At(t, "idle")
    /\ calls < MaxCalls
    /\ \E op \in menu : \E b \in Args(op) :
        Become(t, << [NewTask("caller", Entry(op) \o <<"idle">>)
                        EXCEPT !.op = op, !.buf = b] >>)
    /\ calls' = calls + 1
    /\ UNCHANGED <<pkgs, c, cfg, streams, pong, rdone, ticks, sent, invoked, heard,
                   nwrite, nclose, panicked>>

----------------------------------------------------------------------------
\* Conn.Write (socket.go 154-172)

\* a Write that rejects only a Closed Conn
WriteRejectedOnlyClosed == c.state = ConnStateClosed

\* line 157: the state check that rejects the write
WriteRejected == c.state # ConnStateOpen

\* a Write that does not wait for muSend
WriteNoLock == TRUE

\* line 155: c.muSend.Lock()
WriteLockFree == ~c.muSend

\* lines 155-165: the lock, the state check, SetWriteDeadline, and raw.Write
\* begins: the first byte of b is on the wire.  A nil raw is dereferenced at
\* line 161.
Write(t) ==
    /\ Running /\ At(t, "Write")
    /\ WriteLockFree
    /\ IF WriteRejected
       THEN /\ Become(t, Return(t, ErrConnectionNotEstablished, 0))
            /\ UNCHANGED <<c, streams, nwrite, panicked>>
       ELSE IF c.raw = 0
       THEN /\ panicked' = "Write: nil raw"
            /\ UNCHANGED <<c, streams, tasks, nwrite>>
       ELSE IF streams[c.raw].closed
       THEN /\ Become(t, Return(t, ErrNetClosed, 0))
            /\ UNCHANGED <<c, streams, nwrite, panicked>>
       ELSE /\ c' = [c EXCEPT !.muSend = TRUE]
            /\ nwrite' = nwrite + 1
            /\ streams' = [streams EXCEPT
                    ![c.raw].wdl = TRUE,
                    ![c.raw].wire = Append(@, [w |-> nwrite + 1,
                                               data |-> SubSeq(t.buf, 1, 1)])]
            /\ Become(t, << [Goto(t, "Write_end") EXCEPT
                                !.wid = nwrite + 1, !.s = c.raw] >>)
            /\ UNCHANGED panicked
    /\ UNCHANGED <<pkgs, cfg, pong, rdone, calls, ticks, sent, invoked, heard, nclose>>

\* lines 165-171: raw.Write ends (all of b written, or an error after the
\* first byte), the deadline is cleared, muSend is released
Write_end(t) ==
    /\ Running /\ At(t, "Write_end")
    /\ \E ok \in BOOLEAN :
        /\ streams' = [streams EXCEPT
                ![t.s].wdl = FALSE,
                ![t.s].wire = IF ok THEN Append(@, [w |-> t.wid, data |-> Tail(t.buf)])
                              ELSE @]
        /\ Become(t, Return([t EXCEPT !.wid = 0, !.s = 0],
                            IF ok THEN Nil ELSE ErrNetWrite,
                            IF ok THEN Len(t.buf) ELSE 1))
    /\ c' = [c EXCEPT !.muSend = FALSE]
    /\ UNCHANGED <<pkgs, cfg, pong, rdone, calls, ticks, sent, invoked, heard, nwrite,
                   nclose, panicked>>

----------------------------------------------------------------------------
\* Conn.Read (socket.go 179-186): raw.Read runs with muConn held

Read(t) ==
    /\ Running /\ At(t, "Read")
    /\ ~c.muConn
    /\ IF c.state # ConnStateOpen
       THEN /\ Become(t, Return(t, ErrConnectionNotEstablished, 0))
            /\ UNCHANGED c
       ELSE /\ c' = [c EXCEPT !.muConn = TRUE]
            /\ Become(t, <<Goto(t, "Read_raw")>>)
    /\ UNCHANGED <<pkgs, cfg, streams, pong, rdone, calls, ticks, sent, invoked,
                   heard, nwrite, nclose, panicked>>

\* line 185, with a buffer of one byte
Read_raw(t) ==
    /\ Running /\ At(t, "Read_raw")
    /\ IF c.raw = 0
       THEN /\ panicked' = "Read: nil raw"
            /\ UNCHANGED <<c, streams, tasks>>
       ELSE LET st == streams[c.raw] IN
            /\ st.closed \/ st.inb # <<>> \/ st.eof
            /\ panicked' = panicked
            /\ c' = [c EXCEPT !.muConn = FALSE]
            /\ IF st.closed
               THEN /\ Become(t, Return(t, ErrNetClosed, 0))
                    /\ UNCHANGED streams
               ELSE IF st.inb # <<>>
               THEN /\ Become(t, Return(t, Nil, 1))
                    /\ streams' = [streams EXCEPT ![c.raw].inb = Tail(@)]
               ELSE /\ Become(t, Return(t, <<"EOF">>, 0))
                    /\ UNCHANGED streams
    /\ UNCHANGED <<pkgs, cfg, pong, rdone, calls, ticks, sent, invoked, heard, nwrite,
                   nclose>>

----------------------------------------------------------------------------
\* Conn.Register (socket.go 188-195)
Register(t) ==
    /\ Running /\ At(t, "Register")
    /\ ~c.muConn
    /\ cfg' = [cfg EXCEPT !.Handlers = (t.buf[1] :> "user") @@ @]
    /\ Become(t, Return(t, Nil, 0))
    /\ UNCHANGED <<pkgs, c, streams, pong, rdone, calls, ticks, sent, invoked, heard,
                   nwrite, nclose, panicked>>

\* Conn.IsOpen (socket.go 346-350); the result is returned in n: 1 is true
IsOpen(t) ==
    /\ Running /\ At(t, "IsOpen")
    /\ ~c.muConn
    /\ Become(t, Return(t, Nil, IF c.state = ConnStateOpen THEN 1 ELSE 0))
    /\ UNCHANGED <<pkgs, c, cfg, streams, pong, rdone, calls, ticks, sent, invoked,
                   heard, nwrite, nclose, panicked>>

----------------------------------------------------------------------------
\* Conn.Listen (socket.go 197-209).  On an Open Conn it returns at line 200
\* with muConn still locked.  Otherwise it runs readLoop in the caller.
Listen(t) ==
    /\ Running /\ At(t, "Listen")
    /\ ~c.muConn
    /\ IF c.state = ConnStateOpen
       THEN /\ c' = [c EXCEPT !.muConn = TRUE]
            /\ Become(t, Return(t, Nil, 0))
            /\ UNCHANGED <<pong, rdone>>
       ELSE /\ c' = [c EXCEPT !.state = ConnStateOpen, !.pongCh = NewPong,
                              !.ReadDone = NewReadDone]
            /\ pong' = Append(pong, 0)
            /\ rdone' = Append(rdone, 0)
            /\ Become(t, <<Goto(t, "readLoop")>>)
    /\ UNCHANGED <<pkgs, cfg, streams, calls, ticks, sent, invoked, heard, nwrite,
                   nclose, panicked>>

----------------------------------------------------------------------------
\* WrapTLS (part_004 85-99) on a stream just dialed: the error returned and
\* what has become of the stream.  On an error no stream is returned.

\* a WrapTLS that starts the handshake whatever the configuration
WrapTLSUnchecked(tlsConfig) ==
    {[err |-> ErrTLSHandshake, tls |-> "failed"], [err |-> Nil, tls |-> "ok"]}

WrapTLS(tlsConfig) ==
    IF ~tlsConfig THEN {[err |-> ErrTLSMissingConfig, tls |-> "none"]}
    ELSE {[err |-> ErrTLSHandshake, tls |-> "failed"], [err |-> Nil, tls |-> "ok"]}

\* line 242: err == nil after WrapTLS
Upgraded(w) == w.err = Nil

\* Conn.connect (socket.go 227-260), called with both locks held.  Its
\* outcomes: the error returned, the Conn, the streams and the channels after
\* it, and whether it spawned heartbeatLoop and readLoop.  net.Dial is
\* refused, or yields a new stream; with UseTLS the upgrade of the new
\* stream fails (the stream stays open, line 244) or succeeds.
connect ==
    LET same(e) == [e |-> e, c |-> c, streams |-> streams, pong |-> pong,
                    rdone |-> rdone, spawn |-> FALSE]
        upgrades == IF cfg.UseTLS THEN WrapTLS(cfg.TLSConfig)
                    ELSE {[err |-> Nil, tls |-> "none"]}
        dialed(w) == Append(streams, [NewStream EXCEPT !.tls = w.tls])
    IN
    IF c.state = ConnStateOpen THEN {same(Nil)}
    ELSE {same(Join(ErrConnectionNotEstablished, ErrDial))}
         \cup
         (IF Len(streams) < MaxStreams
          THEN {IF Upgraded(w)
                THEN [e |-> Nil,
                      c |-> [c EXCEPT !.raw = Len(streams) + 1,
                                      !.state = ConnStateOpen,
                                      !.lastPing = "connect",
                                      !.pongCh = NewPong,
                                      !.ReadDone = NewReadDone],
                      streams |-> dialed(w),
                      pong |-> Append(pong, 0),
                      rdone |-> Append(rdone, 0),
                      spawn |-> TRUE]
                ELSE [same(Join(ErrConnectionTLSUpgradeFailed, w.err))
                         EXCEPT !.streams = dialed(w)] : w \in upgrades}
          ELSE {})

\* a connect that starts the reader alone
SpawnedReaderOnly == <<NewTask("reader", <<"readLoop">>)>>

\* lines 257-258: go c.heartbeatLoop(), which returns at once when the
\* interval is 0 (lines 429-432), and go c.readLoop()
Spawned ==
    (IF cfg.HeartbeatInterval = 0 THEN <<>>
     ELSE <<NewTask("heartbeat", <<"heartbeat_tick">>)>>)
    \o <<NewTask("reader", <<"readLoop">>)>>

\* the caller of connect takes outcome o, releases both locks and returns o.e
AfterConnect(t, o) ==
    /\ c' = [o.c EXCEPT !.muConn = FALSE, !.muSend = FALSE]
    /\ streams' = o.streams
    /\ pong' = o.pong
    /\ rdone' = o.rdone
    /\ Become(t, Return(t, o.e, 0) \o (IF o.spawn THEN Spawned ELSE <<>>))

\* Conn.Connect (socket.go 211-222)
Connect(t) ==
    /\ Running /\ At(t, "Connect")
    /\ ~c.muConn /\ ~c.muSend
    /\ IF c.state = ConnStateReconnecting
       THEN /\ Become(t, Return(t, Nil, 0))
            /\ UNCHANGED <<c, streams, pong, rdone>>
       ELSE \E o \in connect : AfterConnect(t, o)
    /\ UNCHANGED <<pkgs, cfg, calls, ticks, sent, invoked, heard, nwrite, nclose,
                   panicked>>

----------------------------------------------------------------------------
\* Conn.Close (socket.go 262-291)

\* a Close that leaves the read-done channel open
CloseReadDoneNever(rd, ch) == rd

\* lines 278-285: the read-done channel is closed unless it is nil or closed
\* already (the receive of line 280 succeeds on a closed channel alone:
\* nothing is ever sent on it)
CloseReadDone(rd, ch) ==
    IF ch = 0 \/ rd[ch] > 0 THEN rd ELSE [rd EXCEPT ![ch] = @ + 1]

\* c.raw.Close() on a nil raw is a nil dereference (line 271).  Closing a
\* stream that is closed already fails; closing an open stream closes it and
\* may still return an error.
Close(t) ==
    /\ Running /\ At(t, "Close")
    /\ ~c.muConn /\ ~c.muSend
    /\ IF c.raw = 0
       THEN /\ panicked' = "Close: nil raw"
            /\ UNCHANGED <<c, streams, rdone, tasks, nclose>>
       ELSE \E ok \in (IF streams[c.raw].closed THEN {FALSE} ELSE BOOLEAN) :
            /\ panicked' = panicked
            /\ streams' = [streams EXCEPT ![c.raw].closed = TRUE]
            /\ IF ok
               THEN /\ rdone' = CloseReadDone(rdone, c.ReadDone)
                    /\ c' = [c EXCEPT !.ReadDone = 0, !.raw = 0, !.pongCh = 0,
                                      !.state = ConnStateClosed]
                    /\ nclose' = nclose + 1
                    /\ Become(t, Return(t, Nil, 0))
               ELSE /\ rdone' = rdone
                    /\ c' = [c EXCEPT !.state = ConnStateUnknown]
                    /\ nclose' = nclose
                    /\ Become(t, Return(t, ErrNetClosed, 0))
    /\ UNCHANGED <<pkgs, cfg, pong, calls, ticks, sent, invoked, heard, nwrite>>

----------------------------------------------------------------------------
\* Conn.reconnect (socket.go 296-310)

\* a reconnect that refuses a Conn that was never connected too
reconnectRefusesIdle == c.state \in {ConnStateClosed, ConnStateIdle}

\* line 303
reconnectRefuses == c.state = ConnStateClosed

\* lines 297-306: both locks, the check for Closed, the state Reconnecting
reconnect(t) ==
    /\ Running /\ At(t, "reconnect")
    /\ ~c.muConn /\ ~c.muSend
    /\ IF reconnectRefuses
       THEN /\ Become(t, Return(t, ErrConnectionClosed, 0))
            /\ UNCHANGED c
       ELSE /\ c' = [c EXCEPT !.muConn = TRUE, !.muSend = TRUE,
                              !.state = ConnStateReconnecting]
            /\ Become(t, <<Goto(t, "reconnect_connect")>>)
    /\ UNCHANGED <<pkgs, cfg, streams, pong, rdone, calls, ticks, sent, invoked,
                   heard, nwrite, nclose, panicked>>

\* line 309
reconnect_connect(t) ==
    /\ Running /\ At(t, "reconnect_connect")
    /\ \E o \in connect : AfterConnect(t, o)
    /\ UNCHANGED <<pkgs, cfg, calls, ticks, sent, invoked, heard, nwrite, nclose,
                   panicked>>

----------------------------------------------------------------------------
\* DailWithRetry (dail.go 12-61).  The Conn it returns is NewConnWithRaw of
\* the stream: the call returns, in n, the stream the Conn wraps, 0 for a nil
\* Conn.  The stream it dials is its own until it returns, so an attempt is
\* one step.

\* a DailWithRetry that leaves the stream open after a failed upgrade
TLSFailureLeaks == FALSE

\* lines 33-35: conn.Close() after a failed upgrade
TLSFailureCloses == TRUE

\* line 14: the loop condition
DialAttemptsLeft(i) == i < MaxReconnectionAttempts

DailWithRetry(t) ==
    /\ Running /\ At(t, "DailWithRetry")
    /\ IF ~DialAttemptsLeft(t.i)
       THEN \* line 60
            /\ Become(t, Return(t, Join(ErrFailedToDial, t.lastErr), 0))
            /\ UNCHANGED streams
       ELSE \/ \* lines 15-27: the dial fails
               /\ Become(t, << [t EXCEPT !.lastErr = ErrDial, !.i = @ + 1,
                                         !.att = t.i + 1] >>)
               /\ UNCHANGED streams
            \/ \* lines 29-51: the dial yields a stream
               /\ Len(streams) < MaxStreams
               /\ LET s == Len(streams) + 1
                      on == [t EXCEPT !.att = t.i + 1, !.dialed = Append(@, s)]
                  IN
                  IF ~cfg.UseTLS
                  THEN /\ streams' = Append(streams, NewStream)
                       /\ Become(t, Return(on, Nil, s))
                  ELSE \E w \in WrapTLS(cfg.TLSConfig) :
                       IF w.err = Nil
                       THEN /\ streams' = Append(streams,
                                              [NewStream EXCEPT !.tls = w.tls])
                            /\ Become(t, Return(on, Nil, s))
                       ELSE \E closeErr \in {Nil, ErrNetClosed} :
                            /\ streams' = Append(streams,
                                    [NewStream EXCEPT !.tls = w.tls,
                                                      !.closed = TLSFailureCloses])
                            /\ Become(t, << [on EXCEPT
                                    !.lastErr = Join(w.err, closeErr),
                                    !.i = @ + 1] >>)
    /\ UNCHANGED <<pkgs, c, cfg, pong, rdone, calls, ticks, sent, invoked, heard,
                   nwrite, nclose, panicked>>

----------------------------------------------------------------------------
\* Conn.Reconnect (socket.go 312-344)

\* a Reconnect that does not check for Closed
ReconnectClosedSkipped == FALSE

\* line 314
ReconnectClosed == c.state = ConnStateClosed

\* a Reconnect that does not check for Reconnecting
ReconnectAlreadySkipped == FALSE

\* line 319
ReconnectAlready == c.state = ConnStateReconnecting

\* lines 313-328: the state checks under muConn, then the first attempt
Reconnect(t) ==
    /\ Running /\ At(t, "Reconnect")
    /\ ~c.muConn
    /\ IF ReconnectClosed
       THEN Become(t, Return(t, ErrConnectionClosed, 0))
       ELSE IF ReconnectAlready
       THEN Become(t, Return(t, ErrConnectionAlreadyReconnecting, 0))
       ELSE IF AttemptsLeft(0)
       THEN Become(t, << [CallFn(t, "reconnect", "Reconnect_after") EXCEPT
                            !.errs = ErrExhaustedReconnectAttempts,
                            !.i = 0, !.att = 1] >>)
       ELSE Become(t, Return(t, ErrExhaustedReconnectAttempts, 0))
    /\ UNCHANGED <<pkgs, c, cfg, streams, pong, rdone, calls, ticks, sent, invoked,
                   heard, nwrite, nclose, panicked>>

----------------------------------------------------------------------------
\* Conn.readLoop (socket.go 364-426)

\* lines 365-367
readLoop(t) ==
    /\ Running /\ At(t, "readLoop")
    /\ ~c.muConn
    /\ c' = [c EXCEPT !.ReadDone = NewReadDone]
    /\ rdone' = Append(rdone, 0)
    /\ Become(t, <<Goto(t, "readLoop_state")>>)
    /\ UNCHANGED <<pkgs, cfg, streams, pong, calls, ticks, sent, invoked, heard,
                   nwrite, nclose, panicked>>

\* lines 372-375: c.state is read without a lock
readLoop_state(t) ==
    /\ Running /\ At(t, "readLoop_state")
    /\ IF c.state # ConnStateOpen
       THEN Become(t, Return(t, Nil, 0))
       ELSE Become(t, <<Goto(t, "readLoop_header")>>)
    /\ UNCHANGED <<pkgs, c, cfg, streams, pong, rdone, calls, ticks, sent, invoked,
                   heard, nwrite, nclose, panicked>>

\* line 378: io.ReadFull(c.raw, headerBuf) begins; c.raw is read without a lock
readLoop_header(t) ==
    /\ Running /\ At(t, "readLoop_header")
    /\ IF c.raw = 0
       THEN /\ panicked' = "readLoop: nil raw"
            /\ UNCHANGED tasks
       ELSE /\ Become(t, << [Goto(t, "readLoop_header_read") EXCEPT !.s = c.raw] >>)
            /\ UNCHANGED panicked
    /\ UNCHANGED <<pkgs, c, cfg, streams, pong, rdone, calls, ticks, sent, invoked,
                   heard, nwrite, nclose>>

\* line 399: the handler registered for an action, "" when there is none
Lookup(a) == IF a \in DOMAIN cfg.Handlers THEN cfg.Handlers[a] ELSE ""

\* line 405
TooLarge(h) == U64Gt(h.Len, MaxMessageSize)

\* lines 399-416: what the reader does with a header it has decoded
Verdict(h) ==
    IF Lookup(h.Action) = "" THEN "no handler"
    ELSE IF TooLarge(h) THEN "too large"
    ELSE "payload"

\* line 424: go handler(c, header, payload).  The default Ping handler is
\* sendPong, a Write of a Pong header; the default Pong handler posts on the
\* pong channel; the body of a handler given to Register is not modelled.

\* a sendPong that announces a payload of one byte
PongHeaderBytesWithPayload == MarshalBytes(Header(ActionPong, U64(1)))

\* sendPong (socket.go 492-497): the header of a Pong
PongHeaderBytes == MarshalBytes(Header(ActionPong, U64(0)))

Dispatch(handler) ==
    IF handler = "ping"
    THEN << [NewTask("handler", <<"Write">>) EXCEPT !.buf = PongHeaderBytes] >>
    ELSE IF handler = "pong"
    THEN << NewTask("handler", <<"handler_pong">>) >>
    ELSE <<>>

\* an invocation, with the place in heard of the header of its frame
Invocation(handler, h, payload, at) ==
    [handler |-> handler, hdr |-> h, payload |-> payload, at |-> at]

\* a reader that answers EOF with a reconnect
ReaderReconnect(t) == CallFn([t EXCEPT !.s = 0], "Reconnect", "readLoop_closed")

\* the reader calls Close, logs its error and returns
ReaderClose(t) == CallFn([t EXCEPT !.s = 0], "Close", "readLoop_closed")

\* lines 378-416: ReadFull of the header returns, and the header is handled.
\* A frame without payload is dispatched at once (ReadFull of no byte reads
\* nothing).
readLoop_header_read(t) ==
    /\ Running /\ At(t, "readLoop_header_read")
    /\ LET s == t.s
           st == streams[s]
           loop == [Goto(t, "readLoop_state") EXCEPT !.s = 0]
       IN
       IF st.closed
       THEN \* an error that is not EOF: continue
            /\ Become(t, <<loop>>)
            /\ UNCHANGED <<streams, invoked, heard>>
       ELSE IF Len(st.inb) >= HeaderSize
       THEN LET h == UnmarshalHeader(SubSeq(st.inb, 1, HeaderSize)).h
                v == Verdict(h)
            IN
            /\ streams' = [streams EXCEPT
                    ![s].inb = SubSeq(@, HeaderSize + 1, Len(@))]
            /\ heard' = Append(heard, [s |-> s, hdr |-> h])
            /\ IF v = "no handler"
               THEN /\ Become(t, <<loop>>)
                    /\ UNCHANGED invoked
               ELSE IF v = "too large"
               THEN /\ Become(t, <<ReaderClose(t)>>)
                    /\ UNCHANGED invoked
               ELSE IF h.Len = U64(0)
               THEN /\ Become(t, <<loop>> \o Dispatch(Lookup(h.Action)))
                    /\ invoked' = Append(invoked,
                                         Invocation(Lookup(h.Action), h, <<>>,
                                                    Len(heard) + 1))
               ELSE /\ Become(t, << [Goto(t, "readLoop_payload") EXCEPT
                                        !.s = 0, !.hdr = h,
                                        !.op = Lookup(h.Action),
                                        !.n = Len(heard) + 1] >>)
                    /\ UNCHANGED invoked
       ELSE /\ st.eof
            /\ UNCHANGED <<invoked, heard>>
            /\ IF st.inb = <<>>
               THEN \* io.EOF: Close and return
                    /\ Become(t, <<ReaderClose(t)>>)
                    /\ UNCHANGED streams
               ELSE \* io.ErrUnexpectedEOF: continue
                    /\ Become(t, <<loop>>)
                    /\ streams' = [streams EXCEPT ![s].inb = <<>>]
    /\ UNCHANGED <<pkgs, c, cfg, pong, rdone, calls, ticks, sent, nwrite, nclose,
                   panicked>>

\* line 419: io.ReadFull(c.raw, payload) begins; c.raw is read without a lock
readLoop_payload(t) ==
    /\ Running /\ At(t, "readLoop_payload")
    /\ IF c.raw = 0
       THEN /\ panicked' = "readLoop: nil raw"
            /\ UNCHANGED tasks
       ELSE /\ Become(t, << [Goto(t, "readLoop_payload_read") EXCEPT !.s = c.raw] >>)
            /\ UNCHANGED panicked
    /\ UNCHANGED <<pkgs, c, cfg, streams, pong, rdone, calls, ticks, sent, invoked,
                   heard, nwrite, nclose>>

\* lines 419-424: ReadFull of the payload returns
readLoop_payload_read(t) ==
    /\ Running /\ At(t, "readLoop_payload_read")
    /\ LET st == streams[t.s]
           len == U64Int(t.hdr.Len)
           loop == [Goto(t, "readLoop_state") EXCEPT
                        !.s = 0, !.hdr = NoHeader, !.op = "", !.n = 0]
       IN
       IF st.closed
       THEN /\ Become(t, <<loop>>)
            /\ UNCHANGED <<streams, invoked>>
       ELSE IF Len(st.inb) >= len
       THEN /\ streams' = [streams EXCEPT ![t.s].inb = SubSeq(@, len + 1, Len(@))]
            /\ Become(t, <<loop>> \o Dispatch(t.op))
            /\ invoked' = Append(invoked,
                                 Invocation(t.op, t.hdr, SubSeq(st.inb, 1, len),
                                            t.n))
       ELSE /\ st.eof
            /\ streams' = [streams EXCEPT ![t.s].inb = <<>>]
            /\ Become(t, <<loop>>)
            /\ UNCHANGED invoked
    /\ UNCHANGED <<pkgs, c, cfg, pong, rdone, calls, ticks, sent, heard, nwrite,
                   nclose, panicked>>

\* DefaultConnHandlers[ActionPong] (part_002 49-54): a send that never
\* blocks.  The slot of the channel is 0 when empty; a notification in it is
\* written as 1 + the number of ticks before it was posted, which no step
\* reads but to tell the slot empty from full.
handler_pong(t) ==
    /\ Running /\ At(t, "handler_pong")
    /\ pong' = IF c.pongCh # 0 /\ pong[c.pongCh] = 0
               THEN [pong EXCEPT ![c.pongCh] = ticks + 1] ELSE pong
    /\ Become(t, Return(t, Nil, 0))
    /\ UNCHANGED <<pkgs, c, cfg, streams, rdone, calls, ticks, sent, invoked, heard,
                   nwrite, nclose, panicked>>

----------------------------------------------------------------------------
\* Conn.heartbeatLoop (socket.go 428-477)

\* lines 438-445: a tick, and the check for Closed under muConn
heartbeat_tick(t) ==
    /\ Running /\ At(t, "heartbeat_tick")
    /\ ~c.muConn
    /\ IF c.state = ConnStateClosed
       THEN /\ Become(t, Return(t, Nil, 0))
            /\ UNCHANGED ticks
       ELSE /\ ticks < MaxTicks
            /\ ticks' = ticks + 1
            /\ Become(t, << [Goto(t, "heartbeat_drain") EXCEPT
                                !.i = ticks + 1] >>)
    /\ UNCHANGED <<pkgs, c, cfg, streams, pong, rdone, calls, sent, invoked, heard,
                   nwrite, nclose, panicked>>

\* a heartbeat that goes on to sendPing with the channel as it is
heartbeat_nodrain(t) ==
    /\ Running /\ At(t, "heartbeat_drain")
    /\ Become(t, << [CallFn(t, "Write", "heartbeat_sent") EXCEPT
                        !.buf = PingHeaderBytes] >>)
    /\ UNCHANGED <<pkgs, c, cfg, streams, pong, rdone, calls, ticks, sent, invoked,
                   heard, nwrite, nclose, panicked>>

\* lines 447-456: the pong channel is drained, then sendPing calls Write
heartbeat_drain(t) ==
    /\ Running /\ At(t, "heartbeat_drain")
    /\ pong' = IF c.pongCh # 0 THEN [pong EXCEPT ![c.pongCh] = 0] ELSE pong
    /\ Become(t, << [CallFn(t, "Write", "heartbeat_sent") EXCEPT
                        !.buf = PingHeaderBytes] >>)
    /\ UNCHANGED <<pkgs, c, cfg, streams, rdone, calls, ticks, sent, invoked, heard,
                   nwrite, nclose, panicked>>

\* a heartbeat that goes on to its next tick instead
HeartbeatGoesOn == NewTask("heartbeat", <<"heartbeat_tick">>)

\* lines 458 and 470: go c.ReconnectOrClose()
RoCTask == NewTask("roc", ReconnectOrCloseEntry)

\* lines 456-464: sendPing has returned; on success the select begins and
\* c.pongCh is read without a lock
heartbeat_sent(t) ==
    /\ Running /\ At(t, "heartbeat_sent")
    /\ IF t.err # Nil
       THEN Become(t, <<RoCTask>>)
       ELSE Become(t, << [NewTask("heartbeat", <<"heartbeat_wait">>) EXCEPT
                            !.ch = c.pongCh, !.i = t.i] >>)
    /\ UNCHANGED <<pkgs, c, cfg, streams, pong, rdone, calls, ticks, sent, invoked,
                   heard, nwrite, nclose, panicked>>

\* lines 463-464: a pong arrives on the channel
heartbeat_wait_pong(t) ==
    /\ Running /\ At(t, "heartbeat_wait")
    /\ t.ch # 0 /\ pong[t.ch] > 0
    /\ pong' = [pong EXCEPT ![t.ch] = 0]
    /\ Become(t, <<NewTask("heartbeat", <<"heartbeat_pong">>)>>)
    /\ UNCHANGED <<pkgs, c, cfg, streams, rdone, calls, ticks, sent, invoked, heard,
                   nwrite, nclose, panicked>>

\* lines 468-472: the 10 seconds pass
heartbeat_wait_timeout(t) ==
    /\ Running /\ At(t, "heartbeat_wait")
    /\ Become(t, <<RoCTask>>)
    /\ UNCHANGED <<pkgs, c, cfg, streams, pong, rdone, calls, ticks, sent, invoked,
                   heard, nwrite, nclose, panicked>>

\* lines 465-467 and 475: lastPing is set under muConn, then the sleep
heartbeat_pong(t) ==
    /\ Running /\ At(t, "heartbeat_pong")
    /\ ~c.muConn
    /\ c' = [c EXCEPT !.lastPing = "pong"]
    /\ Become(t, <<NewTask("heartbeat", <<"heartbeat_tick">>)>>)
    /\ UNCHANGED <<pkgs, cfg, streams, pong, rdone, calls, ticks, sent, invoked,
                   heard, nwrite, nclose, panicked>>

----------------------------------------------------------------------------
\* The peer: it sends a frame on a stream, or closes its side of a stream.
\* What the peer does on a stream is seen by the reads on that stream alone,
\* so the peer acts when a read on the stream is waiting for bytes: every
\* other moment of arrival shows the Conn the same bytes in the same order.

Starved(s) ==
    \E t \in Live :
        \/ /\ At(t, "readLoop_header_read") /\ t.s = s
           /\ Len(streams[s].inb) < HeaderSize
        \/ /\ At(t, "readLoop_payload_read") /\ t.s = s
           /\ Len(streams[s].inb) < U64Int(t.hdr.Len)
        \/ /\ At(t, "Read_raw") /\ c.raw = s
           /\ streams[s].inb = <<>>

PeerSend(frames) ==
    /\ Running
    /\ Len(sent) < MaxFrames
    /\ \E s \in 1..Len(streams) : \E f \in frames :
        /\ ~streams[s].closed /\ ~streams[s].eof
        /\ Starved(s)
        /\ streams' = [streams EXCEPT
                ![s].inb = @ \o Frame(f.Action, f.Len, f.payload)]
        /\ sent' = Append(sent, [s |-> s, hdr |-> Header(f.Action, U64(f.Len)),
                                 payload |-> f.payload,
                                 known |-> DOMAIN cfg.Handlers])
    /\ UNCHANGED <<pkgs, c, cfg, pong, rdone, tasks, calls, ticks, invoked, heard,
                   nwrite, nclose, panicked>>

\* The peer is a Conn that runs Listen with the default handlers: for every
\* Ping it reads on the stream it writes the header of a Pong.  It reads what
\* the Conn has written as one header after the other.
RECURSIVE WireBytes(_)
WireBytes(wire) == IF wire = <<>> THEN <<>>
                   ELSE Head(wire).data \o WireBytes(Tail(wire))

HeadersOnWire(s, bytes) ==
    LET b == WireBytes(streams[s].wire)
    IN {k \in 1..(Len(b) \div HeaderSize) :
            SubSeq(b, HeaderSize * (k - 1) + 1, HeaderSize * k) = bytes}

FramesSent(s, a) ==
    {j \in 1..Len(sent) : sent[j].s = s /\ sent[j].hdr = Header(a, U64(0))}

PeerPong ==
    /\ Running
    /\ \E s \in 1..Len(streams) :
        /\ ~streams[s].closed /\ ~streams[s].eof
        /\ Starved(s)
        /\ Cardinality(FramesSent(s, ActionPong))
                < Cardinality(HeadersOnWire(s, PingHeaderBytes))
        /\ streams' = [streams EXCEPT ![s].inb = @ \o Frame(ActionPong, 0, <<>>)]
        /\ sent' = Append(sent, [s |-> s, hdr |-> Header(ActionPong, U64(0)),
                                 payload |-> <<>>,
                                 known |-> DOMAIN cfg.Handlers])
    /\ UNCHANGED <<pkgs, c, cfg, pong, rdone, tasks, calls, ticks, invoked, heard,
                   nwrite, nclose, panicked>>

PeerClose ==
    /\ Running
    /\ \E s \in 1..Len(streams) :
        /\ ~streams[s].closed /\ ~streams[s].eof
        /\ Starved(s)
        /\ streams' = [streams EXCEPT ![s].eof = TRUE]
    /\ UNCHANGED <<pkgs, c, cfg, pong, rdone, tasks, calls, ticks, sent, invoked,
                   heard, nwrite, nclose, panicked>>

----------------------------------------------------------------------------
\* The whole model of package socket: every operation, every configuration,
\* every frame.  Packages cleanup and log have their own below.
Next ==
    \/ \E t \in Live : Invoke(t, Ops)
    \/ \E t \in Live : Write(t)
    \/ \E t \in Live : Write_end(t)
    \/ \E t \in Live : Read(t)
    \/ \E t \in Live : Read_raw(t)
    \/ \E t \in Live : Register(t)
    \/ \E t \in Live : IsOpen(t)
    \/ \E t \in Live : Listen(t)
    \/ \E t \in Live : Connect(t)
    \/ \E t \in Live : Close(t)
    \/ \E t \in Live : reconnect(t)
    \/ \E t \in Live : reconnect_connect(t)
    \/ \E t \in Live : Reconnect(t)
    \/ \E t \in Live : DailWithRetry(t)
    \/ \E t \in Live : readLoop(t)
    \/ \E t \in Live : readLoop_state(t)
    \/ \E t \in Live : readLoop_header(t)
    \/ \E t \in Live : readLoop_header_read(t)
    \/ \E t \in Live : readLoop_payload(t)
    \/ \E t \in Live : readLoop_payload_read(t)
    \/ \E t \in Live : handler_pong(t)
    \/ \E t \in Live : heartbeat_tick(t)
    \/ \E t \in Live : heartbeat_drain(t)
    \/ \E t \in Live : heartbeat_sent(t)
    \/ \E t \in Live : heartbeat_wait_pong(t)
    \/ \E t \in Live : heartbeat_wait_timeout(t)
    \/ \E t \in Live : heartbeat_pong(t)
    \/ PeerSend(PeerFrames)
    \/ PeerPong
    \/ PeerClose

Spec == Init /\ [][Next]_vars

----------------------------------------------------------------------------
\* The life cycle: callers that connect, close, reconnect, write and ask
\* IsOpen, a peer that may close its side, no frames and no heartbeat.

LifeConfigs == [UseTLS : {FALSE}, TLSConfig : {FALSE},
    AutoReconnect : {FALSE},
                HeartbeatInterval : {0}, Handlers : {DefaultConnHandlers}]

LifeOps == {"Connect", "Close", "Write", "IsOpen", "Reconnect"}

LifeInit == InitWith(LifeConfigs, {0, 1})

LifeNext ==
    \/ \E t \in Live : Invoke(t, LifeOps)
    \/ \E t \in Live : Write(t)
    \/ \E t \in Live : Write_end(t)
    \/ \E t \in Live : IsOpen(t)
    \/ \E t \in Live : Connect(t)
    \/ \E t \in Live : Close(t)
    \/ \E t \in Live : reconnect(t)
    \/ \E t \in Live : reconnect_connect(t)
    \/ \E t \in Live : Reconnect(t)
    \/ \E t \in Live : readLoop(t)
    \/ \E t \in Live : readLoop_state(t)
    \/ \E t \in Live : readLoop_header(t)
    \/ \E t \in Live : readLoop_header_read(t)
    \/ PeerClose

LifeSpec == LifeInit /\ [][LifeNext]_vars

\* The writers: callers that connect, write and close, the heartbeat that
\* writes Pings, the Ping handler that writes Pongs for the Pings of the peer.

WriteConfigs == [UseTLS : {FALSE}, TLSConfig : {FALSE},
    AutoReconnect : {FALSE},
                 HeartbeatInterval : {0, 1}, Handlers : {DefaultConnHandlers}]

WriteOps == {"Connect", "Write", "Close"}

WriteFrames == { [Action |-> ActionPing, Len |-> 0, payload |-> <<>>] }

WriteInit == InitWith(WriteConfigs, {0})

WriteNext ==
    \/ \E t \in Live : Invoke(t, WriteOps)
    \/ \E t \in Live : Write(t)
    \/ \E t \in Live : Write_end(t)
    \/ \E t \in Live : Connect(t)
    \/ \E t \in Live : Close(t)
    \/ \E t \in Live : readLoop(t)
    \/ \E t \in Live : readLoop_state(t)
    \/ \E t \in Live : readLoop_header(t)
    \/ \E t \in Live : readLoop_header_read(t)
    \/ \E t \in Live : heartbeat_tick(t)
    \/ \E t \in Live : heartbeat_drain(t)
    \/ \E t \in Live : heartbeat_sent(t)
    \/ PeerSend(WriteFrames)

WriteSpec == WriteInit /\ [][WriteNext]_vars

\* The reader: callers that connect and register a handler, a peer that sends
\* every frame of PeerFrames and may close its side, no heartbeat.

ReadConfigs == [UseTLS : {FALSE}, TLSConfig : {FALSE},
    AutoReconnect : {FALSE},
                HeartbeatInterval : {0}, Handlers : {DefaultConnHandlers}]

ReadOps == {"Connect", "Register"}

ReadInit == InitWith(ReadConfigs, {0})

ReadNext ==
    \/ \E t \in Live : Invoke(t, ReadOps)
    \/ \E t \in Live : Write(t)
    \/ \E t \in Live : Write_end(t)
    \/ \E t \in Live : Register(t)
    \/ \E t \in Live : Connect(t)
    \/ \E t \in Live : Close(t)
    \/ \E t \in Live : readLoop(t)
    \/ \E t \in Live : readLoop_state(t)
    \/ \E t \in Live : readLoop_header(t)
    \/ \E t \in Live : readLoop_header_read(t)
    \/ \E t \in Live : readLoop_payload(t)
    \/ \E t \in Live : readLoop_payload_read(t)
    \/ \E t \in Live : handler_pong(t)
    \/ PeerSend(PeerFrames)
    \/ PeerClose

ReadSpec == ReadInit /\ [][ReadNext]_vars

\* ReconnectOrClose: callers that connect, close and call ReconnectOrClose,
\* with and without AutoReconnect, a peer that may close its side.

RoCConfigs == [UseTLS : {FALSE}, TLSConfig : {FALSE},
    AutoReconnect : BOOLEAN,
               HeartbeatInterval : {0}, Handlers : {DefaultConnHandlers}]

RoCOps == {"Connect", "Close", "ReconnectOrClose"}

RoCInit == InitWith(RoCConfigs, {0, 1})

RoCNext ==
    \/ \E t \in Live : Invoke(t, RoCOps)
    \/ \E t \in Live : Connect(t)
    \/ \E t \in Live : Close(t)
    \/ \E t \in Live : reconnect(t)
    \/ \E t \in Live : reconnect_connect(t)
    \/ \E t \in Live : Reconnect(t)
    \/ \E t \in Live : readLoop(t)
    \/ \E t \in Live : readLoop_state(t)
    \/ \E t \in Live : readLoop_header(t)
    \/ \E t \in Live : readLoop_header_read(t)
    \/ PeerClose

RoCSpec == RoCInit /\ [][RoCNext]_vars

\* Connecting: callers that call Connect, reconnect and Close, with and
\* without TLS and heartbeat, a peer that may close its side.

ConnectConfigs == [UseTLS : BOOLEAN, TLSConfig : BOOLEAN, AutoReconnect : {FALSE},
                   HeartbeatInterval : {0, 1}, Handlers : {DefaultConnHandlers}]

ConnectOps == {"Connect", "reconnect", "Close"}

ConnectInit == InitWith(ConnectConfigs, {0})

ConnectNext ==
    \/ \E t \in Live : Invoke(t, ConnectOps)
    \/ \E t \in Live : Write(t)
    \/ \E t \in Live : Write_end(t)
    \/ \E t \in Live : Connect(t)
    \/ \E t \in Live : Close(t)
    \/ \E t \in Live : reconnect(t)
    \/ \E t \in Live : reconnect_connect(t)
    \/ \E t \in Live : readLoop(t)
    \/ \E t \in Live : readLoop_state(t)
    \/ \E t \in Live : readLoop_header(t)
    \/ \E t \in Live : readLoop_header_read(t)
    \/ \E t \in Live : heartbeat_tick(t)
    \/ \E t \in Live : heartbeat_drain(t)
    \/ \E t \in Live : heartbeat_sent(t)
    \/ PeerClose

ConnectSpec == ConnectInit /\ [][ConnectNext]_vars

\* The Ping/Pong round trip of TestConn_PingPong (socket_test.go 34-68), one
\* side at a time.  The server side: a Conn made by NewConnWithRaw on which
\* Listen has been called; its peer, the client, sends Pings.  The client
\* side: a Conn made by NewConn on which Connect has been called; its peer,
\* the server, answers every Ping with a Pong.  On either side the callers
\* call sendPing.  The configurations are the test's: the server has a
\* heartbeat interval, which Listen does not use, and the client has none.
\* The scheduler is fair to every goroutine that can run, and the peer
\* answers; no fairness is asked of the callers or of the Pings of the peer.

PingServerConfigs ==
    [UseTLS : {FALSE}, TLSConfig : {FALSE}, AutoReconnect : {TRUE},
     HeartbeatInterval : {1}, Handlers : {DefaultConnHandlers}]

PingClientConfigs ==
    [UseTLS : {FALSE}, TLSConfig : {FALSE}, AutoReconnect : {TRUE},
     HeartbeatInterval : {0}, Handlers : {DefaultConnHandlers}]

PingOps == {"sendPing"}

PingInit ==
    \/ /\ NewConnWithRaw(PingServerConfigs, {1})
       /\ tasks = PutAll((NewTask("caller", <<"idle">>) :> NumCallers - 1),
                         << [NewTask("caller", <<"Listen", "idle">>)
                                EXCEPT !.op = "Listen"] >>)
    \/ /\ NewConnWithRaw(PingClientConfigs, {0})
       /\ tasks = PutAll((NewTask("caller", <<"idle">>) :> NumCallers - 1),
                         << [NewTask("caller", <<"Connect", "idle">>)
                                EXCEPT !.op = "Connect"] >>)

PingNext ==
    \/ \E t \in Live : Invoke(t, PingOps)
    \/ \E t \in Live : Write(t)
    \/ \E t \in Live : Write_end(t)
    \/ \E t \in Live : Listen(t)
    \/ \E t \in Live : Connect(t)
    \/ \E t \in Live : readLoop(t)
    \/ \E t \in Live : readLoop_state(t)
    \/ \E t \in Live : readLoop_header(t)
    \/ \E t \in Live : readLoop_header_read(t)
    \/ \E t \in Live : handler_pong(t)
    \/ PeerSend(WriteFrames)
    \/ PeerPong

PingFair ==
    /\ WF_vars(\E t \in Live : Write(t))
    /\ WF_vars(\E t \in Live : Write_end(t))
    /\ WF_vars(\E t \in Live : Listen(t))
    /\ WF_vars(\E t \in Live : Connect(t))
    /\ WF_vars(\E t \in Live : readLoop(t))
    /\ WF_vars(\E t \in Live : readLoop_state(t))
    /\ WF_vars(\E t \in Live : readLoop_header(t))
    /\ WF_vars(\E t \in Live : readLoop_header_read(t))
    /\ WF_vars(\E t \in Live : handler_pong(t))
    /\ WF_vars(PeerPong)

PingSpec == PingInit /\ [][PingNext]_vars /\ PingFair

\* Dialing: callers that call DailWithRetry, with and without TLS, with and
\* without a TLS configuration.

DialConfigs == [UseTLS : BOOLEAN, TLSConfig : BOOLEAN, AutoReconnect : {FALSE},
                HeartbeatInterval : {0}, Handlers : {DefaultConnHandlers}]

DialOps == {"DailWithRetry"}

DialInit == InitWith(DialConfigs, {0})

DialNext ==
    \/ \E t \in Live : Invoke(t, DialOps)
    \/ \E t \in Live : DailWithRetry(t)

DialSpec == DialInit /\ [][DialNext]_vars

\* The header codec: a goroutine that marshals a header and unmarshals the
\* bytes.  The headers: every action byte, and the lengths whose 16-bit limbs
\* are 0, 255, 256 or 65535 (each byte of the length is 0, 1 or 255).

MaxAction == 255

LimbSamples == {0, 255, 256, Limb - 1}

CodecHeaders ==
    [Action : 0..MaxAction,
     Len : LimbSamples \X LimbSamples \X LimbSamples \X LimbSamples]

CodecInit ==
    /\ NewConnWithRaw(LifeConfigs, {0})
    /\ \E h \in CodecHeaders :
        tasks = ([NewTask("codec", <<"MarshalBytes">>) EXCEPT !.hdr = h] :> 1)

\* h.MarshalBytes() (socket.go 59-64); its error is always nil
Marshal(t) ==
    /\ Running /\ At(t, "MarshalBytes")
    /\ Become(t, << [Goto(t, "UnmarshalHeader") EXCEPT
                        !.buf = MarshalBytes(t.hdr)] >>)
    /\ UNCHANGED <<pkgs, c, cfg, streams, pong, rdone, calls, ticks, sent, invoked,
                   heard, nwrite, nclose, panicked>>

\* UnmarshalHeader(buf) (socket.go 76-80): the header decoded is kept in heard
Unmarshal(t) ==
    /\ Running /\ At(t, "UnmarshalHeader")
    /\ LET r == UnmarshalHeader(t.buf)
       IN /\ heard' = Append(heard, [s |-> 0, hdr |-> r.h])
          /\ Become(t, << [Goto(t, "decoded") EXCEPT !.err = r.err] >>)
    /\ UNCHANGED <<pkgs, c, cfg, streams, pong, rdone, calls, ticks, sent, invoked,
                   nwrite, nclose, panicked>>

CodecNext ==
    \/ \E t \in Live : Marshal(t)
    \/ \E t \in Live : Unmarshal(t)

CodecSpec == CodecInit /\ [][CodecNext]_vars

\* The tasks of a Conn: callers that call Connect, Listen, Reconnect and
\* Close, with and without heartbeat and AutoReconnect (ReconnectOrClose is
\* the one the heartbeat spawns), a peer that is silent.

TaskConfigs == [UseTLS : {FALSE}, TLSConfig : {FALSE}, AutoReconnect : BOOLEAN,
                HeartbeatInterval : {0, 1}, Handlers : {DefaultConnHandlers}]

TaskOps == {"Connect", "Listen", "Reconnect"}

TaskInit == InitWith(TaskConfigs, {0, 1})

TaskNext ==
    \/ \E t \in Live : Invoke(t, TaskOps)
    \/ \E t \in Live : Write(t)
    \/ \E t \in Live : Write_end(t)
    \/ \E t \in Live : Listen(t)
    \/ \E t \in Live : Connect(t)
    \/ \E t \in Live : Close(t)
    \/ \E t \in Live : reconnect(t)
    \/ \E t \in Live : reconnect_connect(t)
    \/ \E t \in Live : Reconnect(t)
    \/ \E t \in Live : readLoop(t)
    \/ \E t \in Live : readLoop_state(t)
    \/ \E t \in Live : readLoop_header(t)
    \/ \E t \in Live : readLoop_header_read(t)
    \/ \E t \in Live : heartbeat_tick(t)
    \/ \E t \in Live : heartbeat_drain(t)
    \/ \E t \in Live : heartbeat_sent(t)
    \/ \E t \in Live : heartbeat_wait_timeout(t)

TaskSpec == TaskInit /\ [][TaskNext]_vars

\* The reader while the Conn reconnects: callers that call Connect and
\* Reconnect, no heartbeat, a peer that sends Pings and may close its side.

ReaderConfigs == [UseTLS : {FALSE}, TLSConfig : {FALSE}, AutoReconnect : {FALSE},
                  HeartbeatInterval : {0}, Handlers : {DefaultConnHandlers}]

ReaderOps == {"Connect", "Reconnect"}

ReaderInit == InitWith(ReaderConfigs, {0})

ReaderNext ==
    \/ \E t \in Live : Invoke(t, ReaderOps)
    \/ \E t \in Live : Write(t)
    \/ \E t \in Live : Write_end(t)
    \/ \E t \in Live : Connect(t)
    \/ \E t \in Live : Close(t)
    \/ \E t \in Live : reconnect(t)
    \/ \E t \in Live : reconnect_connect(t)
    \/ \E t \in Live : Reconnect(t)
    \/ \E t \in Live : readLoop(t)
    \/ \E t \in Live : readLoop_state(t)
    \/ \E t \in Live : readLoop_header(t)
    \/ \E t \in Live : readLoop_header_read(t)
    \/ PeerSend(WriteFrames)
    \/ PeerClose

ReaderSpec == ReaderInit /\ [][ReaderNext]_vars

\* The peer closes: callers that call Connect and IsOpen, no heartbeat, a
\* peer that sends nothing and closes its side.  The scheduler is fair to
\* the reader and to every call under way; nothing is asked of the callers
\* that are idle or of the peer.

EofOps == {"Connect", "IsOpen"}

EofInit == InitWith(ReaderConfigs, {0})

EofNext ==
    \/ \E t \in Live : Invoke(t, EofOps)
    \/ \E t \in Live : IsOpen(t)
    \/ \E t \in Live : Connect(t)
    \/ \E t \in Live : Close(t)
    \/ \E t \in Live : readLoop(t)
    \/ \E t \in Live : readLoop_state(t)
    \/ \E t \in Live : readLoop_header(t)
    \/ \E t \in Live : readLoop_header_read(t)
    \/ PeerClose

EofFair ==
    /\ WF_vars(\E t \in Live : IsOpen(t))
    /\ WF_vars(\E t \in Live : Connect(t))
    /\ WF_vars(\E t \in Live : Close(t))
    /\ WF_vars(\E t \in Live : readLoop(t))
    /\ WF_vars(\E t \in Live : readLoop_state(t))
    /\ WF_vars(\E t \in Live : readLoop_header(t))
    /\ WF_vars(\E t \in Live : readLoop_header_read(t))

EofSpec == EofInit /\ [][EofNext]_vars /\ EofFair

\* The order of dispatch: callers that call Connect and Reconnect, no
\* heartbeat, a peer that sends Pongs with and without a payload.

OrderOps == {"Connect", "Reconnect"}

OrderFrames == { [Action |-> ActionPong, Len |-> 0, payload |-> <<>>],
                 [Action |-> ActionPong, Len |-> 1, payload |-> <<7>>] }

OrderInit == InitWith(ReaderConfigs, {0})

OrderNext ==
    \/ \E t \in Live : Invoke(t, OrderOps)
    \/ \E t \in Live : Connect(t)
    \/ \E t \in Live : reconnect(t)
    \/ \E t \in Live : reconnect_connect(t)
    \/ \E t \in Live : Reconnect(t)
    \/ \E t \in Live : readLoop(t)
    \/ \E t \in Live : readLoop_state(t)
    \/ \E t \in Live : readLoop_header(t)
    \/ \E t \in Live : readLoop_header_read(t)
    \/ \E t \in Live : readLoop_payload(t)
    \/ \E t \in Live : readLoop_payload_read(t)
    \/ \E t \in Live : handler_pong(t)
    \/ PeerSend(OrderFrames)

OrderSpec == OrderInit /\ [][OrderNext]_vars

\* The heartbeat: a Conn with a heartbeat interval, with and without
\* AutoReconnect, callers that call Connect and Close, a peer that answers
\* the Pings it reads with Pongs.

HeartConfigs == [UseTLS : {FALSE}, TLSConfig : {FALSE}, AutoReconnect : BOOLEAN,
                 HeartbeatInterval : {1}, Handlers : {DefaultConnHandlers}]

HeartOps == {"Connect", "Close"}

HeartInit == InitWith(HeartConfigs, {0})

HeartNext ==
    \/ \E t \in Live : Invoke(t, HeartOps)
    \/ \E t \in Live : Write(t)
    \/ \E t \in Live : Write_end(t)
    \/ \E t \in Live : Connect(t)
    \/ \E t \in Live : Close(t)
    \/ \E t \in Live : reconnect(t)
    \/ \E t \in Live : reconnect_connect(t)
    \/ \E t \in Live : Reconnect(t)
    \/ \E t \in Live : readLoop(t)
    \/ \E t \in Live : readLoop_state(t)
    \/ \E t \in Live : readLoop_header(t)
    \/ \E t \in Live : readLoop_header_read(t)
    \/ \E t \in Live : handler_pong(t)
    \/ \E t \in Live : heartbeat_tick(t)
    \/ \E t \in Live : heartbeat_drain(t)
    \/ \E t \in Live : heartbeat_sent(t)
    \/ \E t \in Live : heartbeat_wait_pong(t)
    \/ \E t \in Live : heartbeat_wait_timeout(t)
    \/ \E t \in Live : heartbeat_pong(t)
    \/ PeerPong

HeartSpec == HeartInit /\ [][HeartNext]_vars

\* The pong signal: a Conn with a heartbeat interval and no AutoReconnect,
\* callers that call Connect and Close, a peer that answers Pings and also
\* sends Pongs nobody asked for.

StaleFrames == { [Action |-> ActionPong, Len |-> 0, payload |-> <<>>] }

StaleConfigs == [UseTLS : {FALSE}, TLSConfig : {FALSE}, AutoReconnect : {FALSE},
                 HeartbeatInterval : {1}, Handlers : {DefaultConnHandlers}]

StaleInit == InitWith(StaleConfigs, {0})

StaleNext ==
    \/ \E t \in Live : Invoke(t, HeartOps)
    \/ \E t \in Live : Write(t)
    \/ \E t \in Live : Write_end(t)
    \/ \E t \in Live : Connect(t)
    \/ \E t \in Live : Close(t)
    \/ \E t \in Live : readLoop(t)
    \/ \E t \in Live : readLoop_state(t)
    \/ \E t \in Live : readLoop_header(t)
    \/ \E t \in Live : readLoop_header_read(t)
    \/ \E t \in Live : handler_pong(t)
    \/ \E t \in Live : heartbeat_tick(t)
    \/ \E t \in Live : heartbeat_drain(t)
    \/ \E t \in Live : heartbeat_sent(t)
    \/ \E t \in Live : heartbeat_wait_pong(t)
    \/ \E t \in Live : heartbeat_wait_timeout(t)
    \/ \E t \in Live : heartbeat_pong(t)
    \/ PeerSend(StaleFrames)
    \/ PeerPong

StaleSpec == StaleInit /\ [][StaleNext]_vars

\* Package cleanup (part_010): Register, Unregister and RunCleanup called by
\* the callers.  A cleanup function is a number, each Register being given a
\* function of its own; the body of a function is not modelled.  What is
\* done between mu.Lock() and mu.Unlock() is one step.

CleanupOps == {"Register", "Unregister", "RunCleanup"}

\* a caller calls Register(fn), Unregister(id) with an id that a Register
\* has returned for a function not yet unregistered, or RunCleanup()
cleanup_Call(t) ==
    /\ Running /\ At(t, "idle")
    /\ calls < MaxCalls
    /\ \E op \in CleanupOps :
        LET call == [NewTask("caller", <<"cleanup." \o op, "idle">>)
                        EXCEPT !.op = op]
        IN
        IF op = "Register"
        THEN Become(t, << [call EXCEPT !.n = calls + 1] >>)
        ELSE IF op = "Unregister"
        THEN \E r \in cleanup.returned :
                /\ r.fn \notin cleanup.unregistered
                /\ Become(t, << [call EXCEPT !.n = r.fn, !.wid = r.id] >>)
        ELSE Become(t, <<call>>)
    /\ calls' = calls + 1
    /\ UNCHANGED <<pkgs, c, cfg, streams, pong, rdone, ticks, sent, invoked,
                   heard, nwrite, nclose, panicked>>

\* line 32: id := atomic.AddUint64(&cleanupIdGen, 1)
cleanup_Register(t) ==
    /\ Running /\ At(t, "cleanup.Register")
    /\ cleanup' = [cleanup EXCEPT !.cleanupIdGen = @ + 1]
    /\ Become(t, << [Goto(t, "cleanup.Register_store") EXCEPT
                        !.wid = cleanup.cleanupIdGen + 1] >>)
    /\ UNCHANGED <<logger, c, cfg, streams, pong, rdone, calls, ticks, sent,
                   invoked, heard, nwrite, nclose, panicked>>

\* cleanupFns[id] = fn: the entry of id is replaced when there is one
Store(fns, id, fn) == {e \in fns : e.id # id} \cup {[id |-> id, fn |-> fn]}

\* lines 33-36: the function is stored under mu and the id returned
cleanup_Register_store(t) ==
    /\ Running /\ At(t, "cleanup.Register_store")
    /\ cleanup' = [cleanup EXCEPT
            !.cleanupFns = Store(@, t.wid, t.n),
            !.returned = @ \cup {[fn |-> t.n, id |-> t.wid]}]
    /\ Become(t, Return(t, Nil, t.wid))
    /\ UNCHANGED <<logger, c, cfg, streams, pong, rdone, calls, ticks, sent,
                   invoked, heard, nwrite, nclose, panicked>>

\* Unregister (lines 39-43): delete(cleanupFns, id); the function the caller
\* means to unregister is kept in the history
cleanup_Unregister(t) ==
    /\ Running /\ At(t, "cleanup.Unregister")
    /\ cleanup' = [cleanup EXCEPT
            !.cleanupFns = {e \in @ : e.id # t.wid},
            !.unregistered = @ \cup {t.n}]
    /\ Become(t, Return(t, Nil, 0))
    /\ UNCHANGED <<logger, c, cfg, streams, pong, rdone, calls, ticks, sent,
                   invoked, heard, nwrite, nclose, panicked>>

\* the orders in which a range over the map yields its functions
Orders(fns) ==
    {q \in [1..Cardinality(fns) -> {e.fn : e \in fns}] :
        \A i, j \in 1..Cardinality(fns) : i # j => q[i] # q[j]}

\* RunCleanup, lines 79-86: under mu the functions are copied to a slice,
\* the map is replaced by an empty one and cleanupIdGen is set to 0
RunCleanup(t) ==
    /\ Running /\ At(t, "cleanup.RunCleanup")
    /\ \E q \in Orders(cleanup.cleanupFns) :
        Become(t, << [Goto(t, "cleanup.RunCleanup_run") EXCEPT
                        !.buf = [i \in 1..Len(q) |-> q[i]]] >>)
    /\ cleanup' = [cleanup EXCEPT !.cleanupFns = {}, !.cleanupIdGen = 0]
    /\ UNCHANGED <<logger, c, cfg, streams, pong, rdone, calls, ticks, sent,
                   invoked, heard, nwrite, nclose, panicked>>

\* RunCleanup, lines 87-92: the functions of the slice are run, outside mu
RunCleanup_run(t) ==
    /\ Running /\ At(t, "cleanup.RunCleanup_run")
    /\ cleanup' = [cleanup EXCEPT !.ran = @ \o t.buf]
    /\ Become(t, Return(t, Nil, 0))
    /\ UNCHANGED <<logger, c, cfg, streams, pong, rdone, calls, ticks, sent,
                   invoked, heard, nwrite, nclose, panicked>>

CleanupInit == InitWith(LifeConfigs, {0})

CleanupNext ==
    \/ \E t \in Live : cleanup_Call(t)
    \/ \E t \in Live : cleanup_Register(t)
    \/ \E t \in Live : cleanup_Register_store(t)
    \/ \E t \in Live : cleanup_Unregister(t)
    \/ \E t \in Live : RunCleanup(t)
    \/ \E t \in Live : RunCleanup_run(t)

CleanupSpec == CleanupInit /\ [][CleanupNext]_vars

\* Package log (logger.go 84-164, 350-392): log, Init and Close called by the
\* callers.  mu is a sync.RWMutex: Lock waits until nobody holds either
\* side, RLock until nobody holds the write side.  What a call does after
\* it has taken mu and before it blocks again is one step.  The writer
\* goroutines Init starts and the contents of the log channels are not
\* modelled.

LogOps == {"log", "Init", "Close"}

\* the levels the exported functions log at (Debug ... Error, lines 394-397)
LogLevels == {DEBUG, INFO, WARN, ERROR}

\* the arguments of Init: a level, one below TRACE and one above QUIET
\* included, a directory and a file name
InitLevels == {TRACE - 1, TRACE, WARN, QUIET, QUIET + 1}
InitDirs == {".", "logs"}
InitFilenames == {"", "app.log"}

\* filepath.Clean(strings.TrimSuffix(filepath.Base(filename), ".log")) for
\* the file names of InitFilenames: Base("") is "."
BaseName(filename) == IF filename = "" THEN "."
                      ELSE SubSeq(filename, 1, Len(filename) - 4)

\* a caller calls log(lvl, msg), Init(dir, filename, lvl) or Close()
log_Call(t) ==
    /\ Running /\ At(t, "idle")
    /\ calls < MaxCalls
    /\ \E op \in LogOps :
        LET call == [NewTask("caller", <<"log." \o op, "idle">>)
                        EXCEPT !.op = op]
        IN
        IF op = "log"
        THEN \E lvl \in LogLevels : Become(t, << [call EXCEPT !.n = lvl] >>)
        ELSE IF op = "Init"
        THEN \E lvl \in InitLevels, dir \in InitDirs, fname \in InitFilenames :
                Become(t, << [call EXCEPT !.n = lvl,
                                          !.buf = <<dir, fname>>] >>)
        ELSE Become(t, <<call>>)
    /\ calls' = calls + 1
    /\ UNCHANGED <<pkgs, c, cfg, streams, pong, rdone, ticks, sent, invoked,
                   heard, nwrite, nclose, panicked>>

\* log, lines 351-354: mu.RLock(); a message below logLevel is dropped and
\* log returns at line 353, where there is no RUnlock
log_RLock(t) ==
    /\ Running /\ At(t, "log.log")
    /\ ~logger.mu
    /\ logger' = [logger EXCEPT !.readers = @ + 1]
    /\ IF t.n < logger.logLevel
       THEN Become(t, Return(t, Nil, 0))
       ELSE Become(t, <<Goto(t, "log.log_RUnlock")>>)
    /\ UNCHANGED <<cleanup, c, cfg, streams, pong, rdone, calls, ticks, sent,
                   invoked, heard, nwrite, nclose, panicked>>

\* log, lines 356-392: the lines are made, mu.RUnlock(), and the message is
\* offered to the channels by selects that have a default case
log_RUnlock(t) ==
    /\ Running /\ At(t, "log.log_RUnlock")
    /\ logger' = [logger EXCEPT !.readers = @ - 1]
    /\ Become(t, Return(t, Nil, 0))
    /\ UNCHANGED <<cleanup, c, cfg, streams, pong, rdone, calls, ticks, sent,
                   invoked, heard, nwrite, nclose, panicked>>

\* Init (lines 126-157): mu.Lock(); the returns at 129, 134 and 142 come
\* before the mu.Unlock() of line 147
log_Init(t) ==
    LET lvl == t.n
        dir == t.buf[1]
        name == BaseName(t.buf[2])
        locked == [logger EXCEPT !.mu = TRUE]
        levelled == [locked EXCEPT !.logLevel = lvl]
        made == [levelled EXCEPT !.closeCh = "open", !.logFileDir = dir,
                                 !.logFilename = name]
    IN
    /\ Running /\ At(t, "log.Init")
    /\ ~logger.mu /\ logger.readers = 0
    /\ IF lvl < TRACE \/ lvl > QUIET
       THEN /\ logger' = locked
            /\ Become(t, Return(t, ErrInvalidLogLevel, 0))
       ELSE IF logger.closeCh # "nil"
       THEN /\ logger' = levelled
            /\ Become(t, Return(t, ErrAlreadyInitialized, 0))
       ELSE IF dir # "." /\ name = "."
       THEN /\ logger' = made
            /\ Become(t, Return(t, ErrMissingLogFilename, 0))
       ELSE /\ logger' = [made EXCEPT
                    !.logFilename = IF name # "." THEN name \o ".log" ELSE name,
                    !.mu = FALSE]
            /\ Become(t, Return(t, Nil, 0))
    /\ UNCHANGED <<cleanup, c, cfg, streams, pong, rdone, calls, ticks, sent,
                   invoked, heard, nwrite, nclose, panicked>>

\* Close (lines 159-164): mu.Lock(); close(closeCh), which panics on a nil
\* channel and on a closed one; the deferred mu.Unlock()
log_Close(t) ==
    /\ Running /\ At(t, "log.Close")
    /\ ~logger.mu /\ logger.readers = 0
    /\ IF logger.closeCh = "open"
       THEN /\ logger' = [logger EXCEPT !.closeCh = "closed"]
            /\ panicked' = panicked
       ELSE /\ logger' = logger
            /\ panicked' = "log.Close: close of " \o logger.closeCh \o " channel"
    /\ Become(t, Return(t, Nil, 0))
    /\ UNCHANGED <<cleanup, c, cfg, streams, pong, rdone, calls, ticks, sent,
                   invoked, heard, nwrite, nclose>>

LoggerInit == InitWith(LifeConfigs, {0})

LoggerNext ==
    \/ \E t \in Live : log_Call(t)
    \/ \E t \in Live : log_RLock(t)
    \/ \E t \in Live : log_RUnlock(t)
    \/ \E t \in Live : log_Init(t)
    \/ \E t \in Live : log_Close(t)

LoggerSpec == LoggerInit /\ [][LoggerNext]_vars

\* The locks, one operation at a time.  In the steps above a function that
\* takes both locks takes them in one step; here every Lock and Unlock of
\* the code is a step of its own, and a function is the sequence of its lock
\* operations in program order (a deferred Unlock runs when the function
\* returns, the last deferred first).  "muConn.RLock" is GenLogMsg: the
\* read side of muConn taken and released within the call.  What a function
\* does between its lock operations changes no lock and is left out, but for
\* the accesses to the handler map: "Handlers.write" and "Handlers.read"
\* begin an access, "Handlers.end" ends it.

\* a function that takes the send lock before the conn lock
BothLocksReversed ==
    <<"muSend.Lock", "muConn.Lock", "muConn.Unlock", "muSend.Unlock">>

\* Connect (socket.go 212-216), Close (263-267), reconnect (297-301)
BothLocks ==
    <<"muConn.Lock", "muSend.Lock", "muSend.Unlock", "muConn.Unlock">>

\* Read (180-181), IsOpen (347-348), readLoop (365-367),
\* heartbeatLoop (439-445, 465-467), Reconnect (313-323)
ConnLock == <<"muConn.Lock", "muConn.Unlock">>

\* Write (155-156)
SendLock == <<"muSend.Lock", "muSend.Unlock">>

\* GenLogMsg (149-150)
Log == <<"muConn.RLock">>

\* Register (189-194): the map is written with muConn held
RegisterLocks ==
    <<"muConn.Lock", "Handlers.write", "Handlers.end", "muConn.Unlock">>

\* readLoop (399): c.Config.Handlers[header.Action], with no lock held
LookupLocks == <<"Handlers.read", "Handlers.end">>

\* the paths through a function, each as its lock operations
LockPaths(op) ==
    IF op \in {"Connect", "Close", "reconnect"} THEN {BothLocks}
    ELSE IF op \in {"Read", "IsOpen"} THEN {ConnLock}
    ELSE IF op = "Register" THEN {RegisterLocks}
    ELSE IF op = "Write" THEN {SendLock}
    ELSE IF op \in {"sendPing", "sendPong"} THEN {SendLock \o Log}
    ELSE IF op = "Reconnect"
    THEN {ConnLock,                                  \* lines 314-322
          ConnLock \o BothLocks,                     \* an attempt succeeds
          ConnLock \o BothLocks \o Log \o Log}       \* an attempt fails
    ELSE IF op = "ReconnectOrClose"
    THEN {BothLocks,                                 \* Close alone
          ConnLock \o BothLocks,                     \* Reconnect succeeds
          ConnLock \o BothLocks \o Log \o Log \o BothLocks}
    ELSE IF op = "Listen"
    THEN {<<"muConn.Lock">>,                         \* line 200: no Unlock
          ConnLock \o ConnLock \o Log \o Log,        \* readLoop exits
          ConnLock \o ConnLock \o Log \o Log \o BothLocks,   \* EOF
          ConnLock \o ConnLock \o Log \o LookupLocks \o Log}  \* a frame
    ELSE IF op = "readLoop"
    THEN {ConnLock \o Log \o Log,                    \* lines 365-374
          ConnLock \o Log \o Log \o BothLocks,        \* lines 380-384
          ConnLock \o Log \o Log \o BothLocks \o Log,
          ConnLock \o Log \o LookupLocks \o Log,     \* lines 399-402
          ConnLock \o Log \o LookupLocks \o Log \o BothLocks}  \* 405-415
    ELSE IF op = "heartbeatLoop"
    THEN {Log,                                       \* lines 429-432
          Log \o ConnLock,                           \* lines 439-443
          Log \o ConnLock \o SendLock \o Log \o Log, \* lines 456-460
          Log \o ConnLock \o SendLock \o Log \o ConnLock}  \* 465-467
    ELSE {}

LockOps == {"Connect", "Close", "reconnect", "Read", "Register", "IsOpen",
            "Write", "sendPing", "sendPong", "Reconnect", "ReconnectOrClose",
            "Listen", "readLoop", "heartbeatLoop"}

\* a goroutine enters a function, on one of its paths
Enter(t) ==
    /\ Running /\ At(t, "idle")
    /\ calls < MaxCalls
    /\ \E op \in LockOps : \E path \in LockPaths(op) :
        Become(t, << [NewTask("caller", path \o <<"idle">>) EXCEPT !.op = op] >>)
    /\ calls' = calls + 1
    /\ UNCHANGED <<pkgs, c, cfg, streams, pong, rdone, ticks, sent, invoked, heard,
                   nwrite, nclose, panicked>>

\* the task has done the lock operation it was at
Done(t) == Become(t, << [t EXCEPT !.stk = Tail(@)] >>)

muConn_Lock(t) ==
    /\ Running /\ At(t, "muConn.Lock")
    /\ ~c.muConn
    /\ c' = [c EXCEPT !.muConn = TRUE]
    /\ Done(t)
    /\ UNCHANGED <<pkgs, cfg, streams, pong, rdone, calls, ticks, sent, invoked,
                   heard, nwrite, nclose, panicked>>

muConn_Unlock(t) ==
    /\ Running /\ At(t, "muConn.Unlock")
    /\ c' = [c EXCEPT !.muConn = FALSE]
    /\ Done(t)
    /\ UNCHANGED <<pkgs, cfg, streams, pong, rdone, calls, ticks, sent, invoked,
                   heard, nwrite, nclose, panicked>>

\* RLock waits while a writer holds the lock
muConn_RLock(t) ==
    /\ Running /\ At(t, "muConn.RLock")
    /\ ~c.muConn
    /\ Done(t)
    /\ UNCHANGED <<pkgs, c, cfg, streams, pong, rdone, calls, ticks, sent, invoked,
                   heard, nwrite, nclose, panicked>>

muSend_Lock(t) ==
    /\ Running /\ At(t, "muSend.Lock")
    /\ ~c.muSend
    /\ c' = [c EXCEPT !.muSend = TRUE]
    /\ Done(t)
    /\ UNCHANGED <<pkgs, cfg, streams, pong, rdone, calls, ticks, sent, invoked,
                   heard, nwrite, nclose, panicked>>

muSend_Unlock(t) ==
    /\ Running /\ At(t, "muSend.Unlock")
    /\ c' = [c EXCEPT !.muSend = FALSE]
    /\ Done(t)
    /\ UNCHANGED <<pkgs, cfg, streams, pong, rdone, calls, ticks, sent, invoked,
                   heard, nwrite, nclose, panicked>>

\* an access to the handler map begins
Handlers_begin(t) ==
    /\ Running /\ (At(t, "Handlers.write") \/ At(t, "Handlers.read"))
    /\ Become(t, << [t EXCEPT !.stk = Tail(@), !.wid = IF At(t, "Handlers.write")
                                                       THEN 2 ELSE 1] >>)
    /\ UNCHANGED <<pkgs, c, cfg, streams, pong, rdone, calls, ticks, sent, invoked,
                   heard, nwrite, nclose, panicked>>

\* and ends
Handlers_end(t) ==
    /\ Running /\ At(t, "Handlers.end")
    /\ Become(t, << [t EXCEPT !.stk = Tail(@), !.wid = 0] >>)
    /\ UNCHANGED <<pkgs, c, cfg, streams, pong, rdone, calls, ticks, sent, invoked,
                   heard, nwrite, nclose, panicked>>

LockInit == InitWith(LifeConfigs, {0})

LockNext ==
    \/ \E t \in Live : Enter(t)
    \/ \E t \in Live : muConn_Lock(t)
    \/ \E t \in Live : muConn_Unlock(t)
    \/ \E t \in Live : muConn_RLock(t)
    \/ \E t \in Live : muSend_Lock(t)
    \/ \E t \in Live : muSend_Unlock(t)
    \/ \E t \in Live : Handlers_begin(t)
    \/ \E t \in Live : Handlers_end(t)

LockSpec == LockInit /\ [][LockNext]_vars

----------------------------------------------------------------------------
\* What the checks below speak of.

\* the step taken is task t returning (n, e) from the function it is in
Returns(t, e, n) == tasks' = PutAll(Del(tasks, t), Return(t, e, n))

\* the tasks whose raw.Write has begun and not ended
InProgress == {t \in Live : At(t, "Write_end")}

\* on a wire, the chunks of one Write lie next to each other
Contiguous(wire) ==
    \A i, k \in 1..Len(wire) :
        (i < k /\ wire[i].w = wire[k].w) =>
            \A j \in i..k : wire[j].w = wire[i].w

\* a caller is back from operation op
Back(t, op) == At(t, "idle") /\ t.op = op

\* the header the step taken has decoded, when it has decoded one
Decoded == Len(heard') > Len(heard)
LastHeard == heard'[Len(heard')].hdr

----------------------------------------------------------------------------
\* C1: Writes are serialized.  At no instant are two stream writes of the
\* Conn in progress, and on every stream the bytes of each Write form one
\* contiguous block: the chunks of two Writes never interleave.
C1 ==
    /\ Cardinality(InProgress) <= 1
    /\ \A t \in InProgress : tasks[t] = 1
    /\ \A s \in 1..Len(streams) : Contiguous(streams[s].wire)

\* a write is in progress, a task of another kind waits to write, and the
\* wire carries an earlier Write
WitnessC1 ==
    \E t, u \in Live :
        /\ At(t, "Write_end") /\ At(u, "Write") /\ t.kind # u.kind
        /\ c.state = ConnStateOpen
        /\ \E i \in 1..Len(streams[t.s].wire) : streams[t.s].wire[i].w # t.wid

\* C2: Close on a Conn whose state is Closed does not crash.  (The code
\* dereferences the nil raw that the first Close left behind.)
C2 == ~(panicked = "Close: nil raw" /\ c.state = ConnStateClosed)

\* C3: Closed is terminal: once the state is Closed no step changes it.
C3 == [][c.state = ConnStateClosed => c'.state = ConnStateClosed]_vars

\* C4: once a Close has returned nil, every IsOpen returns false and every
\* Write returns (0, ErrConnectionNotEstablished) and writes on no stream.
C4 ==
    [][nclose > 0 =>
        \A t \in Live :
            /\ IsOpen(t) => Returns(t, Nil, 0)
            /\ Write(t) => /\ Returns(t, ErrConnectionNotEstablished, 0)
                           /\ streams' = streams]_vars

\* C5: a Write that finds the state not Open returns
\* (0, ErrConnectionNotEstablished) and does nothing to any stream: no
\* write and no deadline.
C5 ==
    [][\A t \in Live :
        (c.state # ConnStateOpen /\ Write(t)) =>
            /\ Returns(t, ErrConnectionNotEstablished, 0)
            /\ streams' = streams
            /\ nwrite' = nwrite]_vars

\* a caller is back from a Write that was rejected, and no Write has reached
\* a stream
WitnessC5 ==
    \E t \in Live :
        /\ Back(t, "Write")
        /\ t.err = ErrConnectionNotEstablished /\ t.n = 0
        /\ nwrite = 0

\* C6: a Reconnect that finds the state Closed returns ErrConnectionClosed,
\* dials nothing and leaves the Conn as it is.
C6 ==
    [][\A t \in Live :
        (c.state = ConnStateClosed /\ Reconnect(t)) =>
            /\ Returns(t, ErrConnectionClosed, 0)
            /\ c' = c
            /\ streams' = streams]_vars

\* a caller is back from a Reconnect that made no attempt and returned
\* ErrConnectionClosed, and the state is Closed
WitnessC6 ==
    \E t \in Live :
        /\ Back(t, "Reconnect")
        /\ t.err = ErrConnectionClosed /\ t.att = 0
        /\ c.state = ConnStateClosed

\* C7: every header whose length is above MaxMessageSize is fatal, whatever
\* its action: the reader that decodes it invokes no handler and goes on to
\* Close the connection.
C7 ==
    [][\A t \in Live :
        (readLoop_header_read(t) /\ Decoded /\ U64Gt(LastHeard.Len, MaxMessageSize)) =>
            /\ invoked' = invoked
            /\ tasks' = PutAll(Del(tasks, t), <<ReaderClose(t)>>)]_vars

\* C8: a frame without a handler does not disturb the frames around it: every
\* handler invocation carries the header and the payload of a frame that the
\* peer has sent.
C8 ==
    \A i \in 1..Len(invoked) :
        \E j \in 1..Len(sent) :
            /\ sent[j].hdr = invoked[i].hdr
            /\ sent[j].payload = invoked[i].payload

\* the invocations of the handler given to Register, the Ack frames the peer
\* has sent, and those it has sent after Register had returned
UserInvocations == {i \in 1..Len(invoked) : invoked[i].handler = "user"}
AckSent == {j \in 1..Len(sent) : sent[j].hdr = Header(ActionAck, U64(1))}
AckSentRegistered == {j \in AckSent : ActionAck \in sent[j].known}

\* no stream has been closed by either side, and the reader has read all that
\* the peer has sent: it waits for a header that is not there yet
Quiet ==
    /\ \A s \in 1..Len(streams) : ~streams[s].closed /\ ~streams[s].eof
    /\ \E t \in Live : /\ At(t, "readLoop_header_read")
                       /\ Len(streams[t.s].inb) < HeaderSize
    /\ \A t \in Live : ~At(t, "readLoop_payload") /\ ~At(t, "readLoop_payload_read")

\* C9: every frame with action a that is received after Register(a, h) has
\* returned causes exactly one invocation of h.  Never more than one per
\* frame: h is not invoked more often than frames with action a were sent.
\* Never zero: once the reader has read all that the peer has sent, h has
\* been invoked for every frame with action a sent after Register returned.
C9 ==
    /\ Cardinality(UserInvocations) <= Cardinality(AckSent)
    /\ Quiet => Cardinality(UserInvocations) >= Cardinality(AckSentRegistered)

\* what C10 says of every state: no Reconnect makes more than
\* MaxReconnectionAttempts attempts, and the error of a Reconnect that gave
\* up is ErrExhaustedReconnectAttempts joined with an error of each attempt
AttemptsBounded ==
    \A t \in Live :
        /\ t.att <= MaxReconnectionAttempts
        /\ (Back(t, "Reconnect") /\ Is(t.err, ErrExhaustedReconnectAttempts)) =>
            /\ t.att = MaxReconnectionAttempts
            /\ t.err[1] = ErrExhaustedReconnectAttempts[1]
            /\ Len(t.err) >= 1 + t.att

C11 ==
    [][\A t \in Live :
        (c.state = ConnStateReconnecting /\ Reconnect(t)) =>
            /\ Returns(t, ErrConnectionAlreadyReconnecting, 0)
            /\ c' = c
            /\ streams' = streams]_vars

\* a caller is back from a Reconnect that made no attempt and returned
\* ErrConnectionAlreadyReconnecting, and the state is Reconnecting
WitnessC11 ==
    \E t \in Live :
        /\ Back(t, "Reconnect")
        /\ t.err = ErrConnectionAlreadyReconnecting /\ t.att = 0
        /\ c.state = ConnStateReconnecting

\* a caller is inside ReconnectOrClose
InRoC(t) == t.kind = "caller" /\ t.op = "ReconnectOrClose" /\ ~At(t, "idle")

\* the number of tasks t before and after the step taken
Count(t) == IF t \in DOMAIN tasks THEN tasks[t] ELSE 0
CountAfter(t) == IF t \in DOMAIN tasks' THEN tasks'[t] ELSE 0

\* the step taken is task t coming back from ReconnectOrClose with error e
BackFromRoC(t, e) ==
    LET back == [NewTask("caller", <<"idle">>) EXCEPT
                    !.op = "ReconnectOrClose", !.err = e, !.att = t.att]
    IN /\ CountAfter(t) = Count(t) - 1
       /\ CountAfter(back) = Count(back) + 1

\* C12: ReconnectOrClose.  Without AutoReconnect it dials nothing and calls
\* Close.  With AutoReconnect, an attempt of Reconnect that succeeds makes it
\* return nil and close nothing, and a Reconnect that fails makes it call
\* Close with the error of Reconnect kept.  Its Close returns: the state is
\* then Closed and the result is the error of Reconnect, or the state is
\* Unknown and the result is the error of Close joined with the error of
\* Reconnect.
C12 ==
    [][\A t \in Live : InRoC(t) =>
        /\ ~cfg.AutoReconnect =>
                /\ t.stk = <<"Close", "ReconnectOrClose_join", "idle">>
                /\ t.att = 0 /\ t.saved = Nil
        /\ (cfg.AutoReconnect /\ At(t, "Close")) => t.saved # Nil
        /\ (reconnect_connect(t) /\ c'.state = ConnStateOpen) =>
                /\ BackFromRoC(t, Nil)
                /\ nclose' = nclose
                /\ \A s \in 1..Len(streams) : streams'[s] = streams[s]
        /\ (~At(t, "Close") /\ CountAfter(t) < Count(t)
                /\ ~(reconnect_connect(t) /\ c'.state = ConnStateOpen)) =>
                \A e \in {t.err} \cup {u.err : u \in DOMAIN tasks'} :
                    ~BackFromRoC(t, e)
        /\ Close(t) =>
                /\ panicked' = panicked
                /\ \/ c'.state = ConnStateClosed /\ BackFromRoC(t, t.saved)
                   \/ /\ c'.state = ConnStateUnknown
                      /\ BackFromRoC(t, Join(ErrNetClosed, t.saved))]_vars

\* the step taken is the caller t coming back from its operation with error e
ComesBack(t, e) ==
    LET back == [NewTask("caller", <<"idle">>) EXCEPT
                    !.op = t.op, !.err = e, !.att = t.att]
    IN /\ t.stk = <<Head(t.stk), "idle">>
       /\ CountAfter(t) = Count(t) - 1
       /\ CountAfter(back) = Count(back) + 1

\* the step taken has started a reader, and a heartbeat when the interval is
\* above 0
ReaderStarted ==
    LET reader == NewTask("reader", <<"readLoop">>)
        heartbeat == NewTask("heartbeat", <<"heartbeat_tick">>)
    IN /\ CountAfter(reader) = Count(reader) + 1
       /\ CountAfter(heartbeat) =
            Count(heartbeat) + (IF cfg.HeartbeatInterval > 0 THEN 1 ELSE 0)

\* the step taken has connected: the state is Open, a stream dialed in the
\* step is attached, the pong and read-done channels are new and open
Connected ==
    /\ c'.state = ConnStateOpen
    /\ Len(streams') = Len(streams) + 1 /\ c'.raw = Len(streams')
    /\ ~streams'[c'.raw].closed
    /\ Len(pong') = Len(pong) + 1 /\ c'.pongCh = Len(pong')
    /\ pong'[c'.pongCh] = 0
    /\ Len(rdone') = Len(rdone) + 1 /\ c'.ReadDone = Len(rdone')
    /\ rdone'[c'.ReadDone] = 0

\* C13: whenever Connect returns nil, the connect succeeded: on return the
\* state is Open, a stream is attached, the pong and read-done signals are
\* allocated, and a reader has been started (with a heartbeat when the
\* interval is above 0): by this call, or before it when the call found the
\* Conn Open.
C13 ==
    [][\A t \in Live :
        (Connect(t) /\ ComesBack(t, Nil)) =>
            /\ c'.state = ConnStateOpen
            /\ c'.raw # 0 /\ c'.pongCh # 0 /\ c'.ReadDone # 0
            /\ c.state # ConnStateOpen => Connected /\ ReaderStarted]_vars

\* C13, amended: a Connect that finds the state Reconnecting returns nil and
\* does nothing; a Connect that finds the state Open returns nil and leaves
\* the Conn as it is; whenever a Connect that finds any other state returns
\* nil, the connect succeeded: on return the state is Open, a new stream is
\* attached, the pong and read-done signals are newly allocated, and a reader
\* has been started (with a heartbeat when the interval is above 0).
C13Amended ==
    [][\A t \in Live :
        Connect(t) =>
            /\ c.state \in {ConnStateReconnecting, ConnStateOpen} =>
                    /\ ComesBack(t, Nil)
                    /\ c' = c /\ streams' = streams
                    /\ pong' = pong /\ rdone' = rdone
            /\ (c.state \notin {ConnStateReconnecting, ConnStateOpen}
                    /\ ComesBack(t, Nil)) =>
                    Connected /\ ReaderStarted]_vars

\* a caller is back from a Connect that returned nil, the state is Open, a
\* stream is attached, and the reader and the heartbeat are there
WitnessC13 ==
    /\ c.state = ConnStateOpen /\ c.raw # 0
    /\ cfg.HeartbeatInterval > 0
    /\ \E t \in Live : Back(t, "Connect") /\ t.err = Nil
    /\ \E t \in Live : t.kind = "reader"
    /\ \E t \in Live : t.kind = "heartbeat"
    /\ calls = 1

\* C14: a Close whose stream close succeeds sets the state to Closed,
\* returns nil and signals read-done exactly once: the read-done channel of
\* the Conn, when there is one, is open before the step and closed by it, and
\* no other channel is touched.  A Close whose stream close fails sets the
\* state to Unknown, returns the error and touches no channel.  No execution
\* runs close() twice on any read-done channel.
C14 ==
    [][/\ \A ch \in 1..Len(rdone') : rdone'[ch] <= 1
       /\ \A t \in Live :
            (Close(t) /\ panicked' = panicked) =>
                \/ /\ nclose' = nclose + 1
                   /\ c'.state = ConnStateClosed /\ c'.ReadDone = 0
                   /\ Returns(t, Nil, 0)
                   /\ c.ReadDone # 0 => rdone[c.ReadDone] = 0
                   /\ rdone' = IF c.ReadDone = 0 THEN rdone
                               ELSE [rdone EXCEPT ![c.ReadDone] = 1]
                \/ /\ nclose' = nclose
                   /\ c'.state = ConnStateUnknown
                   /\ Returns(t, ErrNetClosed, 0)
                   /\ rdone' = rdone /\ c'.ReadDone = c.ReadDone]_vars

\* a caller is back from a Close that returned nil, the state is Closed, the
\* read-done channel the reader had made is closed and the one connect had
\* made is not
WitnessC14 ==
    /\ c.state = ConnStateClosed /\ nclose = 1
    /\ \E t \in Live : Back(t, "Close") /\ t.err = Nil
    /\ Len(rdone) = 2 /\ rdone[1] = 0 /\ rdone[2] = 1

\* the Writes of a Pong header on stream s, each by the place of its first
\* chunk on the wire, and those of them that have returned
PongWrites(s) ==
    {i \in 1..Len(streams[s].wire) : streams[s].wire[i].data = <<ActionPong>>}

PongWritesDone(s) ==
    {i \in PongWrites(s) :
        ~\E t \in Live : At(t, "Write_end") /\ t.wid = streams[s].wire[i].w}

\* on stream s the Conn has begun no more Pongs than the peer has sent Pings,
\* and what a Pong Write has put on the wire after its first byte is the
\* rest of the header of a Pong without payload
OnePongPerPing(s) ==
    /\ Cardinality(PongWrites(s)) <= Cardinality(FramesSent(s, ActionPing))
    /\ \A i \in PongWrites(s) :
        LET wire == streams[s].wire
        IN (i < Len(wire) /\ wire[i + 1].w = wire[i].w) =>
                wire[i].data \o wire[i + 1].data =
                    MarshalBytes(Header(ActionPong, U64(0)))

PongSet == c.pongCh # 0 /\ pong[c.pongCh] > 0

\* C15: the Ping/Pong round trip.  A Conn that reads Pings with the default
\* handlers begins one Pong Write for each Ping sent to it and no more, each
\* the header of a Pong without payload, and every such Write returns: the
\* k-th Ping leads to the k-th Pong.  When the Conn has sent a Ping to such a
\* peer, its pong signal eventually becomes set.
C15 ==
    /\ [](\A s \in 1..Len(streams) : OnePongPerPing(s))
    /\ \A k \in 1..MaxFrames :
        (\E s \in 1..Len(streams) : Cardinality(FramesSent(s, ActionPing)) >= k)
            ~> (\E s \in 1..Len(streams) : Cardinality(PongWritesDone(s)) >= k)
    /\ (\E s \in 1..Len(streams) : HeadersOnWire(s, PingHeaderBytes) # {})
            ~> PongSet

\* the Conn has answered a Ping of its peer with a whole Pong header, its peer
\* has answered a Ping of the Conn with a Pong, and the pong signal is set
WitnessC15 ==
    /\ PongSet
    /\ \E s \in 1..Len(streams) :
        /\ HeadersOnWire(s, PingHeaderBytes) # {}
        /\ HeadersOnWire(s, PongHeaderBytes) # {}
        /\ FramesSent(s, ActionPing) # {}
        /\ FramesSent(s, ActionPong) # {}

\* the step taken has dialed a stream that the peer accepted, with the TLS
\* upgrade done when the configuration asks for one
Accepted ==
    /\ Len(streams') = Len(streams) + 1
    /\ streams'[Len(streams')].tls = IF cfg.UseTLS THEN "ok" ELSE "none"

C17 ==
    \A t \in Live :
        (Back(t, "DailWithRetry") /\ t.err # Nil) =>
            /\ t.n = 0
            /\ Is(t.err, ErrExhaustedReconnectAttempts)
            /\ Len(t.err) >= 1 + t.att

\* C18: DailWithRetry makes at most MaxReconnectionAttempts attempts.  It
\* returns a Conn at the first attempt that succeeds: the Conn wraps the
\* stream dialed last, which is open, with the upgrade done when UseTLS is
\* set.  Every stream dialed in an attempt that failed is closed before the
\* next attempt, so a call that returns an error has made all its attempts,
\* returns no Conn and leaves none of its streams open.
C18 ==
    \A t \in Live :
        /\ t.att <= MaxReconnectionAttempts
        /\ Len(t.dialed) <= t.att
        /\ At(t, "DailWithRetry") =>
                \A k \in 1..Len(t.dialed) : streams[t.dialed[k]].closed
        /\ (Back(t, "DailWithRetry") /\ t.err = Nil) =>
                /\ t.dialed # <<>> /\ t.n = t.dialed[Len(t.dialed)]
                /\ ~streams[t.n].closed
                /\ streams[t.n].tls = IF cfg.UseTLS THEN "ok" ELSE "none"
                /\ \A k \in 1..(Len(t.dialed) - 1) :
                        /\ streams[t.dialed[k]].closed
                        /\ streams[t.dialed[k]].tls # "ok"
        /\ (Back(t, "DailWithRetry") /\ t.err # Nil) =>
                /\ t.n = 0
                /\ t.att = MaxReconnectionAttempts
                /\ \A k \in 1..Len(t.dialed) : streams[t.dialed[k]].closed

\* a caller is back from a DailWithRetry that failed after a dial that was
\* refused and a dial whose TLS handshake failed
WitnessC18 ==
    \E t \in Live :
        /\ Back(t, "DailWithRetry") /\ t.err # Nil
        /\ t.att = MaxReconnectionAttempts /\ Len(t.dialed) = 1
        /\ streams[t.dialed[1]].closed /\ streams[t.dialed[1]].tls = "failed"

\* C19: a TLS upgrade that fails is reported and yields no usable stream.
\* In every connect that dials with UseTLS set: with a nil TLS configuration
\* no handshake is started on the stream and the error returned carries
\* ErrTLSMissingConfig; after a handshake that failed the error returned
\* carries the handshake error; in both cases the stream is not attached and
\* the state does not become Open.  The state becomes Open only with the
\* stream upgraded, and whenever the Conn is Open its stream is upgraded.
C19 ==
    [][/\ (cfg.UseTLS /\ c'.state = ConnStateOpen) =>
            c'.raw # 0 /\ streams'[c'.raw].tls = "ok"
       /\ \A t \in Live :
            ((Connect(t) \/ reconnect_connect(t)) /\ cfg.UseTLS
                    /\ Len(streams') > Len(streams)) =>
                LET st == streams'[Len(streams')]
                    failed(e) ==
                        /\ ComesBack(t, Join(ErrConnectionTLSUpgradeFailed, e))
                        /\ c'.raw = c.raw /\ c'.state = c.state
                        /\ c.state # ConnStateOpen
                        /\ tasks' = PutAll(Del(tasks, t), Return(t,
                                Join(ErrConnectionTLSUpgradeFailed, e), 0))
                IN /\ ~cfg.TLSConfig =>
                        st.tls = "none" /\ failed(ErrTLSMissingConfig)
                   /\ st.tls = "failed" => failed(ErrTLSHandshake)
                   /\ st.tls = "ok" =>
                        /\ cfg.TLSConfig
                        /\ ComesBack(t, Nil) /\ Connected]_vars

\* with UseTLS set: a caller is back from a Connect that failed for the
\* missing TLS configuration, or from a Connect whose handshake failed, and
\* the stream it dialed is attached to nothing
WitnessC19 ==
    /\ cfg.UseTLS /\ c.raw = 0 /\ c.state = ConnStateIdle /\ Len(streams) = 1
    /\ \E t \in Live :
        /\ Back(t, "Connect")
        /\ \/ /\ ~cfg.TLSConfig /\ streams[1].tls = "none"
              /\ t.err = Join(ErrConnectionTLSUpgradeFailed, ErrTLSMissingConfig)
           \/ /\ cfg.TLSConfig /\ streams[1].tls = "failed"
              /\ t.err = Join(ErrConnectionTLSUpgradeFailed, ErrTLSHandshake)

\* C20: the header round trip.  MarshalBytes yields exactly 9 bytes, the
\* action in the first and the length in the other eight, most significant
\* first; UnmarshalHeader of these bytes returns no error and a header equal
\* to the one marshalled.
C20 ==
    \A t \in Live :
        /\ (At(t, "UnmarshalHeader") \/ At(t, "decoded")) =>
                /\ Len(t.buf) = 9
                /\ \A k \in 1..9 : t.buf[k] \in 0..255
                /\ t.buf[1] = t.hdr.Action
                /\ \A k \in 1..4 :
                        t.buf[2 * k] * 256 + t.buf[2 * k + 1] = t.hdr.Len[k]
        /\ At(t, "decoded") =>
                /\ t.err = Nil
                /\ heard[Len(heard)].hdr = t.hdr

\* a header with the greatest action byte and a length with bytes of all
\* three kinds has gone through the round trip
WitnessC20 ==
    \E t \in Live :
        /\ At(t, "decoded")
        /\ t.hdr = Header(MaxAction, <<Limb - 1, 256, 255, 0>>)
        /\ t.buf = <<255, 255, 255, 1, 0, 0, 255, 0, 0>>

\* the statements of readLoop, and the one its call of Close returns to
ReaderLabels == {"readLoop", "readLoop_state", "readLoop_header",
                 "readLoop_header_read", "readLoop_payload",
                 "readLoop_payload_read", "readLoop_closed"}

\* the task runs readLoop: spawned by connect, or the caller of Listen
IsReader(t) == \E k \in 1..Len(t.stk) : t.stk[k] \in ReaderLabels

\* the task runs heartbeatLoop
IsHeartbeat(t) == t.kind = "heartbeat"

\* the number of tasks of a set of task records, every copy counted
Copies(S) == Cardinality(UNION {{<<t, k>> : k \in 1..tasks[t]} : t \in S})

Readers == {t \in Live : IsReader(t)}
Heartbeats == {t \in Live : IsHeartbeat(t)}

\* C21: at most one reader task and at most one heartbeat task run for the
\* Conn, after any interleaving of Connect, Listen, Reconnect,
\* ReconnectOrClose and Close.  It is stated for the runs in which no Close
\* has succeeded, where it does not rest on Closed being final.  (The code
\* spawns a new reader and a new heartbeat in every connect that succeeds and
\* stops neither of the old ones on a reconnect.)
C21 ==
    nclose = 0 => Copies(Readers) <= 1 /\ Copies(Heartbeats) <= 1

\* the step taken is a reader decoding a header or dispatching a handler
ProcessesFrame == Len(heard') > Len(heard) \/ Len(invoked') > Len(invoked)

\* C22: the reader task exists iff the state is Open.  Whenever the state is
\* Open a task of the Conn runs readLoop; and while the state is Idle,
\* Unknown, Closed or Reconnecting no reader processes a frame: no header is
\* decoded and no handler dispatched in a step taken in such a state.  (A
\* reader that has yet to notice the change of state is allowed to exist.)
C22 ==
    [][ /\ (c.state' = ConnStateOpen /\ Running') => Copies(Readers)' >= 1
        /\ ProcessesFrame => c.state = ConnStateOpen ]_vars

\* a ReconnectOrClose spawned by a heartbeat that has ended is under way
RoCUnderWay == \E t \in Live : t.kind = "roc"

\* C23: the heartbeat task exists iff the state is Open and the interval is
\* positive.  A Conn that is Open with a positive interval has a heartbeat
\* task, unless its heartbeat has just ended in favour of a ReconnectOrClose
\* that is still under way; and a heartbeat task exists only with a positive
\* interval and after the Conn has left Idle.  (A heartbeat that has yet to
\* reach its next tick after a change of state is allowed to exist.)
C23 ==
    Running =>
        /\ (c.state = ConnStateOpen /\ cfg.HeartbeatInterval > 0 /\ ~RoCUnderWay)
                => Copies(Heartbeats) >= 1
        /\ Copies(Heartbeats) >= 1
                => cfg.HeartbeatInterval > 0 /\ c.state # ConnStateIdle

\* the step taken is a reader calling ReadFull with the nil stream that a
\* Close has left in c.raw
ReadsDetached == panicked = "" /\ panicked' = "readLoop: nil raw"

\* C24: after a successful Close the reader exits, having processed at most
\* the frame it was in the middle of: it dispatches no handler for a frame
\* that begins after the Close, and it never reads from a stream that Close
\* has detached.  The formula is the safety half: once a Close has
\* succeeded, no reader calls ReadFull on the detached (nil) stream, and no
\* reader decodes a frame from a stream that has been closed.
C24 ==
    [][ nclose > 0 =>
            /\ ~ReadsDetached
            /\ Decoded => ~streams[heard'[Len(heard')].s].closed ]_vars

\* a reader has read EOF for a header and is about to call Close
SawEOF == \E t \in Live : At(t, "Close") /\ t.stk[2] = "readLoop_closed"

\* a task that runs readLoop is inside Reconnect
ReaderReconnects ==
    \E t \in Readers : \E k \in 1..Len(t.stk) :
        t.stk[k] \in {"Reconnect", "reconnect", "reconnect_connect"}

\* the step taken is the Close that a reader calls
ReaderCloses(t) == At(t, "Close") /\ t.stk[2] = "readLoop_closed"
                   /\ tasks' = PutAll(Del(tasks, t), Return(t, Nil, 0))

C26 ==
    \A i, j \in 1..Len(invoked) :
        i < j => /\ invoked[i].at < invoked[j].at
                 /\ heard[invoked[i].at].hdr = invoked[i].hdr

\* the task holds the lock: of the operations on the lock that it has still
\* to do, the first is the Unlock
Holds(t, mu) ==
    \E k \in 1..Len(t.stk) :
        /\ t.stk[k] = mu \o ".Unlock"
        /\ \A j \in 1..(k - 1) : t.stk[j] # mu \o ".Lock"

\* the task is about to take the lock, or waits for it
Wants(t, mu) ==
    At(t, mu \o ".Lock") \/ (mu = "muConn" /\ At(t, "muConn.RLock"))

\* C27: the lock order.  No task tries to take the conn lock, either side of
\* it, while it holds the send lock: a task that holds both took the conn
\* lock first.  So no task that holds the send lock and waits for the conn
\* lock meets one that holds the conn lock and waits for the send lock.
C27 ==
    /\ \A t \in Live : Wants(t, "muConn") => ~Holds(t, "muSend")
    /\ \A t \in Live : (Holds(t, "muSend") /\ Holds(t, "muConn")) =>
            \E k \in 1..Len(t.stk) :
                /\ t.stk[k] = "muConn.Unlock"
                /\ \E j \in 1..(k - 1) : t.stk[j] = "muSend.Unlock"
    /\ ~\E t, u \in Live :
            /\ Holds(t, "muSend") /\ Wants(t, "muConn")
            /\ Holds(u, "muConn") /\ Wants(u, "muSend")

\* a task that has taken the conn lock waits for the send lock, which a
\* Write holds
WitnessC27 ==
    \E t, u \in Live :
        /\ Holds(t, "muConn") /\ Wants(t, "muSend") /\ c.muSend
        /\ Holds(u, "muSend") /\ ~Holds(u, "muConn") /\ u.op = "Write"
        /\ t.op \in {"Connect", "Close", "Reconnect"}

\* the tasks that are writing, and that are reading, the handler map
Registering == {t \in Live : At(t, "Handlers.end") /\ t.wid = 2}
LookingUp == {t \in Live : At(t, "Handlers.end") /\ t.wid = 1}

\* C28: the handler map is accessed only under the conn lock.  Register
\* writes the map with muConn held, and the lookup of the reader is kept
\* apart from it by the lock: a Register and a lookup are never in progress
\* at the same time.  (The reader looks the handler up with no lock held.)
C28 ==
    /\ \A t \in Registering : c.muConn
    /\ Registering = {} \/ LookingUp = {}

\* the step taken is a step of task t
Acts(t) == t \in Live /\ (t \notin DOMAIN tasks' \/ tasks'[t] < tasks[t])

\* the tasks that run a ReconnectOrClose started by a heartbeat
RoCs == {t \in Live : t.kind = "roc"}

\* the heartbeat has had an error from sendPing, or its wait for the pong
\* ends with no pong taken from the channel
PingFailed(t) == At(t, "heartbeat_sent") /\ t.err # Nil
PongTimeout(t) == At(t, "heartbeat_wait") /\ pong' = pong
PongArrived(t) == At(t, "heartbeat_wait") /\ pong' # pong

\* C29: the response of the heartbeat to a failure.  When the write of the
\* Ping fails, or the Ping is written and the wait ends with no pong signal,
\* the heartbeat task starts one ReconnectOrClose and ends: there is one
\* heartbeat less and one ReconnectOrClose more, and nothing is written in
\* the step.  When the pong signal arrives the task goes on, starts no
\* ReconnectOrClose, sets lastPing and is at its next tick.
C29 ==
    [][\A t \in Live : (Acts(t) /\ IsHeartbeat(t)) =>
        /\ (PingFailed(t) \/ PongTimeout(t)) =>
                /\ Copies(RoCs)' = Copies(RoCs) + 1
                /\ Copies(Heartbeats)' = Copies(Heartbeats) - 1
                /\ \E r \in RoCs' : r.stk = ReconnectOrCloseEntry
                /\ streams' = streams /\ nwrite' = nwrite
        /\ PongArrived(t) =>
                /\ Copies(RoCs)' = Copies(RoCs)
                /\ Copies(Heartbeats)' = Copies(Heartbeats)
                /\ \E h \in Heartbeats' : At(h, "heartbeat_pong")
        /\ At(t, "heartbeat_pong") =>
                /\ c.lastPing' = "pong"
                /\ Copies(RoCs)' = Copies(RoCs)
                /\ Copies(Heartbeats)' = Copies(Heartbeats)
                /\ \E h \in Heartbeats' : At(h, "heartbeat_tick") ]_vars

\* a heartbeat has ticked and has ended, and the ReconnectOrClose it started
\* has yet to take its first step
WitnessC29 ==
    /\ ticks > 0
    /\ Heartbeats = {}
    /\ \E r \in RoCs : r.stk = ReconnectOrCloseEntry

\* the step taken is the last step of heartbeat task t
HeartbeatEnds(t) ==
    /\ Acts(t) /\ IsHeartbeat(t)
    /\ Copies(Heartbeats)' < Copies(Heartbeats)

\* C30: once Close has succeeded the heartbeat ends by observing Closed at a
\* tick, and it writes no Ping after the Close.  While the Conn is Closed
\* after a Close, no step of a heartbeat task writes to a stream, and a
\* heartbeat task ends only in the step that finds the state Closed at its
\* tick: it starts no ReconnectOrClose.  (A heartbeat that the Close finds
\* between its tick and the end of its wait for the pong has its Ping
\* rejected, or its wait timed out, and starts ReconnectOrClose on the
\* Closed Conn.)
C30 ==
    [][(nclose > 0 /\ c.state = ConnStateClosed) =>
        \A t \in Live : (Acts(t) /\ IsHeartbeat(t)) =>
            /\ streams' = streams
            /\ HeartbeatEnds(t) =>
                    /\ At(t, "heartbeat_tick")
                    /\ Copies(RoCs)' = Copies(RoCs) ]_vars

\* the tasks that run the default Pong handler
PongHandlers == {t \in Live : At(t, "handler_pong")}

\* C31: the pong signal holds one notification and is drained before each
\* Ping.  The drain of a cycle leaves the channel empty; the notification
\* that ends the wait of a cycle was posted after the tick that started the
\* cycle; and the Pong handler never blocks: its step can always be taken,
\* ends the handler, and leaves the channels as they are when the slot is
\* full or the Conn has no channel.
C31 ==
    [][ /\ \A t \in PongHandlers : ENABLED handler_pong(t)
        /\ \A t \in Live : Acts(t) =>
            /\ (At(t, "heartbeat_drain") /\ c.pongCh # 0) =>
                    pong'[c.pongCh] = 0
            /\ (PongArrived(t) /\ IsHeartbeat(t)) => pong[t.ch] > t.i
            /\ At(t, "handler_pong") =>
                    /\ Copies(PongHandlers)' = Copies(PongHandlers) - 1
                    /\ (c.pongCh = 0 \/ pong[c.pongCh] > 0) => pong' = pong
                    /\ (c.pongCh # 0 /\ pong[c.pongCh] = 0) =>
                            pong'[c.pongCh] > 0 ]_vars

\* a heartbeat is in its wait for the pong; two Pong handlers have run and
\* ended, and the one notification in the channel was posted after the tick
WitnessC31 ==
    \E t \in Heartbeats :
        /\ At(t, "heartbeat_wait") /\ t.ch # 0
        /\ pong[t.ch] > t.i
        /\ Len(invoked) = 2 /\ PongHandlers = {}

\* C32: a Listen on a Conn that is already Open returns with the state as it
\* was and with the conn lock released, so that the calls made afterwards
\* are not blocked.  (Listen returns at line 200 without the Unlock.)
C32 ==
    [][\A t \in Live :
        (Acts(t) /\ At(t, "Listen") /\ c.state = ConnStateOpen) =>
            /\ c.state' = ConnStateOpen
            /\ ~c.muConn']_vars

\* the task is in a call of Reconnect or of reconnect
Reconnecting(t) ==
    \E k \in 1..Len(t.stk) :
        t.stk[k] \in {"Reconnect", "Reconnect_after", "reconnect",
                      "reconnect_connect"}

\* C33: Reconnecting is a transient state.  Whenever no call of Reconnect or
\* of reconnect is in progress the state is not Reconnecting.  (reconnect
\* sets Reconnecting before it dials and nothing sets the state back when
\* the dial fails.)
C33 ==
    c.state = ConnStateReconnecting => \E t \in Live : Reconnecting(t)

\* the streams that are open and are not the stream of the Conn
Leaked == {s \in 1..Len(streams) : s # c.raw /\ ~streams[s].closed}

\* C34: no stream is leaked.  Every stream the Conn has dialed is the stream
\* of the Conn or has been closed.  (connect returns the error of the TLS
\* upgrade without closing the stream it dialed, and a reconnect puts the
\* new stream in the place of the old one without closing the old one.)
C34 == Leaked = {}

\* the calls of Reconnect that have passed the state checks of lines 313-323
\* and have not returned
PastCheck == {t \in Live : \E k \in 1..Len(t.stk) : t.stk[k] = "Reconnect_after"}

\* C35: the state check of Reconnect and the transition to Reconnecting act
\* as one.  With callers that call Connect and Reconnect only, a Reconnect
\* that has passed the check keeps every other Reconnect from passing it
\* until it has returned: no two calls are past the check at once, and so
\* no two of them dial for the same Open Conn.  (The check is made under
\* muConn, which is released before reconnect takes it again.)
C35 == Copies(PastCheck) <= 1

\* C36: Close never operates on an absent stream.  A Close called on a Conn
\* that has no stream and is not Closed, as a Conn of NewConn never
\* connected or one left Reconnecting by attempts that all failed, returns
\* and does not crash.  (Close calls c.raw.Close() on the nil raw.)
C36 == panicked = "Close: nil raw" => c.state = ConnStateClosed

\* C37: the reader only ever reads from an attached stream.  At every
\* ReadFull of readLoop c.raw is not nil, so no reader crashes on the nil
\* stream.  (Listen opens a Conn that has no stream, and Close clears c.raw
\* between the state check of the reader and its read.)
C37 == panicked # "readLoop: nil raw"

\* C38: the read-done channel is stable while the Conn is Open.  No step
\* that leaves the Conn Open puts another channel in c.ReadDone, so the
\* channel a caller sees once Connect has returned is the one the next
\* successful Close closes.  (readLoop makes a new channel when it starts,
\* after connect has made one and Connect has returned.)
C38 ==
    [][(c.state = ConnStateOpen /\ c'.state = ConnStateOpen) =>
            c'.ReadDone = c.ReadDone]_vars

\* the functions a RunCleanup has taken from the map and has yet to run
Taken ==
    UNION {{t.buf[i] : i \in 1..Len(t.buf)} :
            t \in {u \in Live : At(u, "cleanup.RunCleanup_run")}}

\* the functions that have been run
Ran == {cleanup.ran[i] : i \in 1..Len(cleanup.ran)}

\* the functions whose Register has returned, that nobody has unregistered,
\* and that are neither in the map, nor taken by a RunCleanup, nor run
Lost ==
    {r.fn : r \in cleanup.returned} \
        (cleanup.unregistered \cup {e.fn : e \in cleanup.cleanupFns}
            \cup Taken \cup Ran)

\* C39: the cleanup registry.  Every function whose Register has returned
\* and that was not unregistered is in the map until a RunCleanup takes it,
\* and is then run: none is lost by another registration under the same id,
\* and none is run twice.  (RunCleanup sets cleanupIdGen back to 0, so ids
\* are given out again, and Register draws its id before it takes mu.)
C39 ==
    /\ Lost = {}
    /\ \A i, j \in 1..Len(cleanup.ran) :
            i # j => cleanup.ran[i] # cleanup.ran[j]

\* C40: the logger releases its lock on every path.  When no call of log,
\* Init or Close is under way, neither side of the logger's mu is held:
\* not after a log whose message was dropped for its level, and not after
\* an Init that returned an error.  (log returns at line 353 between RLock
\* and RUnlock, Init at 129, 134 and 142 between Lock and Unlock.)
C40 ==
    (\A t \in Live : At(t, "idle")) => ~logger.mu /\ logger.readers = 0

====
